---- MODULE Spec2Model ----
(***************************************************************************)
(* ResultDashboard (frontend/src/app/components/navbar/navbar.ts): the     *)
(* render scheduler (scheduleRender / renderCharts), the chart registry,   *)
(* the view lifecycle hooks and the export's in-progress flag.             *)
(***************************************************************************)
EXTENDS Integers, Sequences, FiniteSets, TLC

\* ------------------------------------------------------------------ bounds
\* renderAttempts is incremented by every renderCharts call that gets past
\* its first two guards, also after the cap; calls stop at this value.
AttemptBound == 7

\* ------------------------------------------------------- program constants
MAX_RENDER_ATTEMPTS == 5

\* The three canvas ids the pass looks up with document.getElementById.
Slots == {"radarChart", "barChart", "doughnutChart"}

\* What getBoundingClientRect gives for a canvas at the time a pass measures
\* it (the layout is free to change between two events):
\*   sized     - a non-zero box
\*   collapsed - a zero box that becomes non-zero once the inline fallback
\*               size is applied
\*   unsized   - a zero box also after the fallback was applied
\*   broken    - measuring the element raises
Boxes == {"sized", "collapsed", "unsized", "broken"}

\* The measurements one pass can meet.
Measures == [Slots -> Boxes]

\* Metric keys of benchmarks / llmBenchmark.estimates.
MetricKeys == {"churnRate"}

\* score.composite when score is absent or composite is null.
NoComposite == -1

\* score.composite: null, or a fraction (0 is present but falsy).
Composites == {NoComposite, 0}

\* this.analysis when no result was handed over (null).
NoAnalysis ==
  [present |-> FALSE, benchmarks |-> {}, estimates |-> {},
   composite |-> NoComposite]

\* this.analysis after ngOnInit: null, or a result.
Analyses ==
  {NoAnalysis} \cup [present    : {TRUE},
                     benchmarks : SUBSET MetricKeys,
                     estimates  : SUBSET MetricKeys,
                     composite  : Composites]

\* Delays passed to scheduleRender.
Delays == {0, 120, 200, 250}

VARIABLES
  analysis,        \* this.analysis
  view,            \* lifecycle of the component: created, mounted, destroyed
  charts,          \* this.charts: sequence of chart ids (tracked instances)
  live,            \* Chart.js registry: the chart instances not destroyed
  canvas,          \* the document: slot -> an element with that id exists
  ro, io,          \* ResizeObserver / IntersectionObserver connected
  isRendering,     \* this.isRendering
  pendingRender,   \* this.pendingRender
  renderTimer,     \* this.renderTimer: id of the last timer set (0: none)
  timers,          \* armed timeouts: set of [id, delay]
  renderAttempts,  \* this.renderAttempts
  awaiting,        \* renderCharts calls suspended at import('chart.js/auto')
  chartJs,         \* notLoaded / loaded: the module cache of chart.js/auto
  passes,          \* history: number of executions of the pass body
  outcome,         \* history: how the last renderCharts call ended
  isGeneratingPdf, \* this.isGeneratingPdf; while true, downloadPdf is
                   \* suspended at import('jspdf')
  result,          \* the result whose chart data one pass maps
  series,          \* what the mapping step of that pass produced
  text,            \* a text handed to sanitizeText
  cleaned,         \* the results of sanitizing it once, then once more
  doc,             \* the result as the export sees it: wrapped line counts
  ops,             \* the layout operations the export still has to run
  y,               \* downloadPdf's cursor y (mm)
  pages,           \* pdf.getNumberOfPages()
  headers,         \* history: calls of addHeader
  breaks,          \* history: page breaks made by ensureSpace
  lastDraw,        \* history: the last body text drawn: kind, page and y
  block,           \* history: the section being laid out
  blockBreaks,     \* history: page breaks made since that section began
  stamps,          \* the footer stamps written: sequence of [page, of]
  pdfPc,           \* where the export is: idle, loading, layout, footers,
                   \* saving, done, failed
  saved,           \* history: documents handed to pdf.save
  calls,           \* history: calls of downloadPdf
  exports,         \* history: calls of downloadPdf that passed its guard
  failedAt,        \* history: the stage that raised (none)
  escaped,         \* history: an error left downloadPdf towards its caller
  pieces,          \* the pieces a cohort string is put together from
  raw,             \* the cohort's sector or stage string, as characters
  called,          \* history: the label helper was called on raw
  stageLabel,      \* what getStageLabel returned
  chips,           \* what getSectorChips returned
  score,           \* analysis.score as the doughnut step of a pass reads it
  doughEl,         \* the doughnut canvas: absent, or its box when measured
  doughnut,        \* what that step did, and the data pair it charted
  wrapped,         \* one line of splitTextToSize: its text, its index, the
                   \* number of lines, and the helper drawing it
  drawn,           \* how the line was drawn: left or justified
  competition,     \* marketAnalysis.competition, as characters
  rendering        \* how the export rendered it, and its items

\* The scheduler, the registry and the document.
renderVars == <<analysis, view, charts, live, canvas, ro, io, isRendering,
                pendingRender, renderTimer, timers, renderAttempts, awaiting,
                chartJs, passes, outcome, isGeneratingPdf>>

\* The chart-data mapping of one pass.
mapVars == <<result, series>>

\* The sanitizer applied to one text.
textVars == <<text, cleaned>>

\* The export's document under construction.
pdfVars == <<doc, ops, y, pages, headers, breaks, lastDraw, block,
             blockBreaks, stamps, pdfPc, saved, calls, exports, failedAt,
             escaped>>

\* The cohort label helpers applied to one string.
labelVars == <<pieces, raw, called, stageLabel, chips>>

\* Single steps of a pass and of the export, each applied to one input.
unitVars == <<score, doughEl, doughnut, wrapped, drawn, competition, rendering>>

\* What the scheduler's steps leave alone.
aux == <<mapVars, textVars, pdfVars, labelVars, unitVars>>

vars == <<renderVars, aux>>

Outcomes == {"none", "noAnalysis", "capped", "started", "loadFailed",
             "aborted", "completed", "retry"}

TypeOK ==
  /\ analysis \in Analyses
  /\ view \in {"created", "mounted", "destroyed"}
  /\ charts \in Seq(Nat)
  /\ \A c \in live : c.slot \in Slots /\ c.attached \in BOOLEAN /\ c.id \in Nat
  /\ canvas \in [Slots -> BOOLEAN]
  /\ ro \in BOOLEAN /\ io \in BOOLEAN
  /\ isRendering \in BOOLEAN /\ pendingRender \in BOOLEAN
  /\ renderTimer \in Nat
  /\ \A t \in timers : t.id \in Nat /\ t.delay \in Delays
  /\ renderAttempts \in 0..AttemptBound
  /\ awaiting \in Nat
  /\ chartJs \in {"notLoaded", "loaded"}
  /\ passes \in Nat
  /\ outcome \in Outcomes
  /\ isGeneratingPdf \in BOOLEAN

\* ------------------------------------------------------------------ helpers
Range(s) == {s[i] : i \in DOMAIN s}

\* A fresh object identity: the least id not in use.
FreshId(used) == CHOOSE i \in 1..(Cardinality(used) + 1) : i \notin used

\* ch.destroy() for every chart in ids: the registry forgets them.
DestroyAll(reg, ids) == {c \in reg : c.id \notin ids}

\* Chart.getChart(el)?.destroy(): the chart bound to the element now in the
\* document under this id, if any, is destroyed.
DestroyBound(reg, slot) == {c \in reg : ~(c.slot = slot /\ c.attached)}

\* clearTimeout that cancels nothing.
ClearTimeoutNoop(ts, handle) == ts

\* clearTimeout(handle)
ClearTimeout(ts, handle) == {t \in ts : t.id # handle}

\* scheduleRender without its isRendering guard: a timer is armed also while
\* a pass is in flight.
ScheduleRenderUnguarded(s, delay) ==
  LET cleared == ClearTimeout(s.timers, s.renderTimer)
      id == FreshId({t.id : t \in cleared})
  IN  [s EXCEPT !.timers = cleared \cup {[id |-> id, delay |-> delay]},
                !.renderTimer = id]

\* scheduleRender(delay) on the scheduler fields s.
ScheduleRender(s, delay) ==
  IF s.isRendering
    THEN [s EXCEPT !.pendingRender = TRUE]
    ELSE LET cleared == ClearTimeout(s.timers, s.renderTimer)
             id == FreshId({t.id : t \in cleared})
         IN  [s EXCEPT !.timers = cleared \cup {[id |-> id, delay |-> delay]},
                       !.renderTimer = id]

Sched == [isRendering |-> isRendering, pendingRender |-> pendingRender,
          renderTimer |-> renderTimer, timers |-> timers]

SetSched(s) ==
  /\ isRendering' = s.isRendering
  /\ pendingRender' = s.pendingRender
  /\ renderTimer' = s.renderTimer
  /\ timers' = s.timers


\* -------------------------------------------------------------- chart data
\* The key set with the estimates taking precedence.
KeysEstimatesFirst(a) ==
  IF a.estimates # {} THEN a.estimates ELSE a.benchmarks

\* The metric key set of a pass: the benchmark keys, else the estimate keys.
Keys(a) == IF a.benchmarks # {} THEN a.benchmarks ELSE a.estimates

\* The radar and the bar chart attempted whatever the key set.
HasKeysAlways(a) == TRUE

\* if (keys.length): the radar and bar chart block is entered.
HasKeys(a) == Keys(a) # {}

\* Whether a pass attempts the chart of a slot: radar and bar need a metric
\* key, the doughnut a composite score.
WantsChart(a, slot) ==
  IF slot = "doughnutChart" THEN a.composite # NoComposite ELSE Keys(a) # {}

\* hasData at the end of renderCharts.
HasData(a) == Keys(a) # {} \/ a.composite # NoComposite

\* ensureCanvasSize(el, h): a zero box gets the inline fallback size and is
\* measured again; a box still zero is replaced by the parent's width (or
\* 600) and the default height; the result is width > 0 && height > 0, and
\* false when measuring raised.
EnsureCanvasSize(box) ==
  IF box = "broken" THEN FALSE
  ELSE LET remeasured == IF box = "collapsed" THEN "sized" ELSE box
           lastResort == IF remeasured = "unsized" THEN "sized" ELSE remeasured
       IN  lastResort = "sized"

\* BuildChart without this.charts.push(chart): the chart is constructed but
\* not tracked.
BuildChartUntracked(st, slot, box) ==
  IF ~st.canvas[slot] THEN st
  ELSE IF ~EnsureCanvasSize(box)
    THEN [st EXCEPT !.sched = ScheduleRender(@, 200), !.aborted = TRUE]
  ELSE LET reg == DestroyBound(st.live, slot)
           id == FreshId({c.id : c \in reg} \cup Range(st.charts))
       IN  [st EXCEPT
             !.live = reg \cup {[id |-> id, slot |-> slot, attached |-> TRUE]}]

\* One chart of a pass: look the canvas up, size it, destroy what is bound
\* to it, construct the chart and track it. st is the pass's working state.
BuildChart(st, slot, box) ==
  IF ~st.canvas[slot] THEN st
  ELSE IF ~EnsureCanvasSize(box)
    THEN [st EXCEPT !.sched = ScheduleRender(@, 200), !.aborted = TRUE]
  ELSE LET reg == DestroyBound(st.live, slot)
           id == FreshId({c.id : c \in reg} \cup Range(st.charts))
       IN  [st EXCEPT
             !.live = reg \cup {[id |-> id, slot |-> slot, attached |-> TRUE]},
             !.charts = Append(@, id)]

\* The tracked list is emptied without destroying its charts.
DestroyTrackedForget(st) == [st EXCEPT !.charts = <<>>]

\* Destroy existing charts before re-render.
DestroyTracked(st) ==
  [st EXCEPT !.live = DestroyAll(@, Range(st.charts)), !.charts = <<>>]

\* The retry test taken as "some canvas is missing".
NeedsRetryAnyMissing(a, dom, attempts) ==
  /\ \E s \in Slots : ~dom[s]
  /\ HasData(a)
  /\ attempts <= MAX_RENDER_ATTEMPTS

\* The retry test without its hasData condition.
NeedsRetryWithoutData(a, dom, attempts) ==
  /\ \A s \in Slots : ~dom[s]
  /\ attempts <= MAX_RENDER_ATTEMPTS

\* The retry test at the end of a pass that was not aborted.
NeedsRetry(a, dom, attempts) ==
  /\ \A s \in Slots : ~dom[s]
  /\ HasData(a)
  /\ attempts <= MAX_RENDER_ATTEMPTS

\* Completion that ignores the pending flag.
FinishPassNoRearm(s) == [s EXCEPT !.isRendering = FALSE]

\* Completion that re-arms but leaves the pending flag set.
FinishPassKeepPending(s) ==
  LET done == [s EXCEPT !.isRendering = FALSE]
  IN  IF done.pendingRender THEN ScheduleRender(done, 0) ELSE done

\* Done rendering; handle any pending rerender request.
FinishPass(s) ==
  LET done == [s EXCEPT !.isRendering = FALSE]
  IN  IF done.pendingRender
        THEN ScheduleRender([done EXCEPT !.pendingRender = FALSE], 0)
        ELSE done

\* The part of renderCharts after the await, on the working state st.
RenderBody(a, st, attempts, m) ==
  LET s0 == DestroyTracked(st)
      s1 == IF HasKeys(a) THEN BuildChart(s0, "radarChart", m["radarChart"]) ELSE s0
      s2 == IF HasKeys(a) /\ ~s1.aborted
              THEN BuildChart(s1, "barChart", m["barChart"]) ELSE s1
      s3 == IF a.composite # NoComposite /\ ~s2.aborted
              THEN BuildChart(s2, "doughnutChart", m["doughnutChart"]) ELSE s2
      s4 == IF ~s3.aborted /\ NeedsRetry(a, s3.canvas, attempts)
              THEN [s3 EXCEPT !.sched = ScheduleRender(@, 250), !.retry = TRUE]
              ELSE s3
  IN  IF s4.aborted THEN s4 ELSE [s4 EXCEPT !.sched = FinishPass(@)]

\* ------------------------------------------------- the chart-data mapping
\* Numbers of a result are in hundredths (0.42 is 42, 1 is 100); a benchmark
\* percentile, a fraction of 1, is in thousandths.
Hundredth == 100

\* A field that is undefined or null.
Null == -1

\* The value NaN: Number(v) of a value that is not numeric, or the company
\* value of a key without one.
NaN == -2

\* The four percent-like keys of getCompanyMetricValue.
PercentKeys == {"growthYoY", "growthMoM", "churnRate", "grossMargin"}

\* The key a result varies in: each percent-like key, or a currency key.
FocusKeys == PercentKeys \cup {"arr"}

\* A second key, with a plain entry, beside the focus key.
OtherKey == "cac"

\* aliases of getCompanyMetricValue, in lookup order.
Aliases(key) ==
  CASE key = "growthYoY"   -> <<"growthYoY", "yoy", "growth_yoy">>
    [] key = "growthMoM"   -> <<"growthMoM", "mom", "growth_mom">>
    [] key = "churnRate"   -> <<"churnRate", "churn">>
    [] key = "grossMargin" -> <<"grossMargin", "margin">>
    [] OTHER               -> <<>>

\* The fields of extractedMetrics a lookup of key can read.
EmFields(key) == {key} \cup Range(Aliases(key))

\* Extracted values: 0.42, 1, 1.5, and one that is not a number.
EmValues == {42, 100, 150, NaN}

\* Benchmark percentiles: 0.425 and 1, a number above 1 (1.2), or none.
Percentiles == {Null, 425, 1000, 1200}

\* A benchmarks entry: null, or { companyValue, median, percentile }.
NullEntry ==
  [isNull |-> TRUE, percentile |-> Null, companyValue |-> Null,
   median |-> Null]

BenchEntries(key) ==
  IF key = OtherKey
    THEN {[isNull |-> FALSE, percentile |-> 500, companyValue |-> 100,
           median |-> 100]}
    ELSE {NullEntry} \cup [isNull : {FALSE}, percentile : Percentiles,
                           companyValue : {Null, 4200}, median : {1000}]

\* Declared units, as texts: none, "%", "% y" and "x".
Units == {<<>>, <<"%">>, <<"%", " ", "y">>, <<"x">>}

\* An estimates entry: null, or { median, unit }.
NullEstimate == [isNull |-> TRUE, median |-> Null, unit |-> <<>>]

EstEntries(key) ==
  IF key = OtherKey
    THEN {[isNull |-> FALSE, median |-> 100, unit |-> <<>>]}
    ELSE {NullEstimate} \cup [isNull : {FALSE}, median : {1000}, unit : Units]

\* A relative label: absent, a text, or a value that is not a text.
NoLabel == [kind |-> "absent", text |-> <<>>]

Labels ==
  {NoLabel, [kind |-> "number", text |-> <<>>]}
    \cup [kind : {"string"},
          text : {<<"a", "b", "o", "v", "e">>, <<"n", "e", "a", "r">>,
                  <<"b", "e", "l", "o", "w">>, <<"A", "b", "o", "v", "e">>,
                  <<"h", "i", "g", "h">>}]

\* benchmarks over a key set: an entry for every key.
BenchMaps(keys) ==
  {f \in [keys -> UNION {BenchEntries(k) : k \in keys}] :
     \A k \in keys : f[k] \in BenchEntries(k)}

\* llmBenchmark.estimates over a key set.
EstMaps(keys) ==
  {f \in [keys -> UNION {EstEntries(k) : k \in keys}] :
     \A k \in keys : f[k] \in EstEntries(k)}

\* extractedMetrics for a focus key: undefined, or its direct field and its
\* last alias set or not.
NoMetrics == [present |-> FALSE, fields |-> <<>>]

Metrics(key) ==
  {NoMetrics} \cup
  {[present |-> TRUE,
    fields  |-> [f \in EmFields(key) \cup {OtherKey} |->
                   IF f = key THEN d
                   ELSE IF Aliases(key) # <<>> /\ f = Aliases(key)[Len(Aliases(key))]
                     THEN al ELSE Null]] :
     d \in EmValues \cup {Null}, al \in {Null, 42}}

\* A result: the fields of this.analysis the mapping reads.
MakeResult(key, bk, b, ek, e, l, m) ==
  [benchmarks |-> bk, bench |-> b, estimates |-> ek, est |-> e,
   relative |-> [k \in {key, OtherKey} |-> IF k = key THEN l ELSE NoLabel],
   em |-> m, focus |-> key]

\* bench[k]: undefined, like null, for a key without an entry.
BenchAt(a, k) == IF k \in DOMAIN a.bench THEN a.bench[k] ELSE NullEntry

\* estimates[k]
EstAt(a, k) == IF k \in DOMAIN a.est THEN a.est[k] ELSE NullEstimate

\* relative[k]
RelativeAt(a, k) ==
  IF k \in DOMAIN a.relative THEN a.relative[k] ELSE NoLabel

\* useEstimates: no benchmark key and some estimate key.
UseEstimates(a) == a.benchmarks = {} /\ a.estimates # {}

\* Math.round of n / d (d > 0, n >= 0): halves go up.
Round(n, d) == (2 * n + d) \div (2 * d)

\* String.prototype.toLowerCase on the letters of the labels.
ToLowerCase(t) == [i \in DOMAIN t |-> IF t[i] = "A" THEN "a" ELSE t[i]]

\* String.prototype.includes for one character.
Includes(t, ch) == \E i \in DOMAIN t : t[i] = ch

\* The proxy with 0 for a label that is missing or unknown.
RelativePercentileZero(label) ==
  LET rel == IF label.kind = "string" THEN ToLowerCase(label.text) ELSE <<>>
  IN  IF rel = <<"a", "b", "o", "v", "e">> THEN 75
      ELSE IF rel = <<"n", "e", "a", "r">> THEN 50
      ELSE IF rel = <<"b", "e", "l", "o", "w">> THEN 25
      ELSE 0

\* The percentile proxy of a relative label.
RelativePercentile(label) ==
  LET rel == IF label.kind = "string" THEN ToLowerCase(label.text) ELSE <<>>
  IN  IF rel = <<"a", "b", "o", "v", "e">> THEN 75
      ELSE IF rel = <<"n", "e", "a", "r">> THEN 50
      ELSE IF rel = <<"b", "e", "l", "o", "w">> THEN 25
      ELSE 50

\* The percentile of a benchmark entry: round((percentile || 0) * 100).
BenchPercentile(entry) ==
  Round(IF entry.percentile = Null THEN 0 ELSE entry.percentile, 10)

\* The percent scaling that looks at the unit: only values declared in % are
\* taken for fractions.
ScalePercentIfUnit(num, unit) ==
  IF Includes(unit, "%")
    THEN (IF num <= Hundredth THEN num * 100 ELSE num)
    ELSE num

\* Normalize percent metrics: both branches on the unit scale a value <= 1.
ScalePercent(num, unit) ==
  IF Includes(unit, "%")
    THEN (IF num <= Hundredth THEN num * 100 ELSE num)
    ELSE (IF num <= Hundredth THEN num * 100 ELSE num)

\* The first alias, from position i on, whose field is set.
RECURSIVE AliasValue(_, _, _)
AliasValue(fields, al, i) ==
  IF i > Len(al) THEN Null
  ELSE IF fields[al[i]] # Null THEN fields[al[i]]
  ELSE AliasValue(fields, al, i + 1)

\* getCompanyMetricValue(key, unit): Null for null.
GetCompanyMetricValue(em, key, unit) ==
  IF ~em.present THEN Null
  ELSE LET direct == em.fields[key]
           v == IF direct = Null THEN AliasValue(em.fields, Aliases(key), 1)
                ELSE direct
       IN  IF v = Null THEN Null
           ELSE IF v = NaN THEN Null
           ELSE IF key \in PercentKeys THEN ScalePercent(v, unit)
           ELSE v

\* Whether the mapping of result a raises: a property of a null benchmark
\* entry is read, or toLowerCase is called on a label that is not a text.
MappingRaises(a) ==
  IF UseEstimates(a)
    THEN \E k \in Keys(a) : RelativeAt(a, k).kind = "number"
    ELSE \E k \in Keys(a) : BenchAt(a, k).isNull

\* Before the mapping step.
NoSeries ==
  [mapped |-> FALSE, raised |-> FALSE, keys |-> {}, useEstimates |-> FALSE,
   percentiles |-> <<>>, companyVals |-> <<>>, medians |-> <<>>,
   hideCompany |-> FALSE]

\* Lines 181-221 of renderCharts: keys, useEstimates, and for a non-empty key
\* set the percentiles, company values and medians.
MapSeries(a) ==
  LET keys == Keys(a)
      useEstimates == UseEstimates(a)
      unitOf(k) == IF EstAt(a, k).isNull THEN <<>> ELSE EstAt(a, k).unit
      companyVal(k) ==
        IF ~useEstimates
          THEN (IF BenchAt(a, k).companyValue = Null THEN NaN
                ELSE BenchAt(a, k).companyValue)
          ELSE LET v == GetCompanyMetricValue(a.em, k, unitOf(k))
               IN  IF v = Null THEN NaN ELSE v
      median(k) ==
        LET md == IF useEstimates THEN EstAt(a, k).median ELSE BenchAt(a, k).median
        IN  IF md = Null THEN 0 ELSE md
  IN  IF keys # {} /\ MappingRaises(a)
        THEN [NoSeries EXCEPT !.mapped = TRUE, !.raised = TRUE, !.keys = keys,
                              !.useEstimates = useEstimates]
        ELSE [mapped       |-> TRUE,
              raised       |-> FALSE,
              keys         |-> keys,
              useEstimates |-> useEstimates,
              percentiles  |-> [k \in keys |->
                                 IF useEstimates
                                   THEN RelativePercentile(RelativeAt(a, k))
                                   ELSE BenchPercentile(BenchAt(a, k))],
              companyVals  |-> [k \in keys |-> companyVal(k)],
              medians      |-> [k \in keys |-> median(k)],
              hideCompany  |-> \A k \in keys : companyVal(k) = NaN]

\* No result is being mapped.
NoResult ==
  [benchmarks |-> {}, bench |-> <<>>, estimates |-> {}, est |-> <<>>,
   relative |-> <<>>, em |-> NoMetrics, focus |-> OtherKey]

MapIdle == result = NoResult /\ series = NoSeries


\* ------------------------------------------------------------ sanitizeText
\* Texts are sequences of characters; a character outside ASCII is named by
\* its code point.
MaxTextLen == 3

\* e, its precomposed form with acute, the combining acute, a zero-width
\* space, the rupee sign, superscript one, a no-break space, a curly quote
\* and an em dash.
TextChars ==
  {"e", "U+00E9", "U+0301", "U+200B", "U+20B9", "U+00B9", "U+00A0",
   "U+2019", "U+2014"}

Texts == UNION {[1..n -> TextChars] : n \in 0..MaxTextLen}

\* Concatenation of the images of the characters of t under f.
RECURSIVE FlatMap(_, _)
FlatMap(t, f) ==
  IF t = <<>> THEN <<>> ELSE f[Head(t)] \o FlatMap(Tail(t), f)

\* The characters a text can hold after any number of sanitizing steps.
AllChars == TextChars \cup {"1", " ", "'", "\"", "-", "I", "N", "R"}

\* NFKC, decomposition: superscript one and the no-break space have
\* compatibility mappings, the precomposed letter a canonical one.
Decomposition ==
  [c \in AllChars |->
     CASE c = "U+00B9" -> <<"1">>
       [] c = "U+00A0" -> <<" ">>
       [] c = "U+00E9" -> <<"e", "U+0301">>
       [] OTHER        -> <<c>>]

\* NFKC, canonical composition: a combining mark composes with the starter
\* right before it; any character of combining class 0 between them (the
\* zero-width space is one) blocks the composition.
RECURSIVE Compose(_)
Compose(t) ==
  IF Len(t) < 2 THEN t
  ELSE IF t[1] = "e" /\ t[2] = "U+0301"
    THEN <<"U+00E9">> \o Compose(Tail(Tail(t)))
  ELSE <<t[1]>> \o Compose(Tail(t))

\* s.normalize('NFKC')
NFKC(t) == Compose(FlatMap(t, Decomposition))

\* s.replace(/[...]/g, to) for a set of characters.
ReplaceAll(t, from, to) ==
  FlatMap(t, [c \in AllChars |-> IF c \in from THEN to ELSE <<c>>])

\* sanitizeText: normalize, strip zero-width marks, map superscript one and
\* the rupee sign to 'INR ', the no-break space to a space, curly quotes and
\* dashes to ASCII.
SanitizeText(t) ==
  IF t = <<>> THEN <<>>
  ELSE LET s1 == NFKC(t)
           s2 == ReplaceAll(s1, {"U+200B"}, <<>>)
           s3 == ReplaceAll(s2, {"U+00B9", "U+20B9"}, <<"I", "N", "R", " ">>)
           s4 == ReplaceAll(s3, {"U+00A0"}, <<" ">>)
           s5 == ReplaceAll(s4, {"U+2019"}, <<"'">>)
       IN  ReplaceAll(s5, {"U+2014"}, <<"-">>)

TextIdle == text = <<>> /\ cleaned = <<>>

\* --------------------------------------------------------------- the export
\* jsPDF('p', 'mm', 'a4'): the page height in mm.
PageHeight == 297
Margin == 12
HeaderHeight == 18
FooterHeight == 10
LineHeight == 6

\* The cursor at the top of a page, and the bound ensureSpace tests against.
Top == Margin + HeaderHeight
Printable == PageHeight - Margin - FooterHeight

\* ---- the document: what of the result the layout depends on
\* A text is the sequence of its sub-paragraphs (split at newlines), each
\* given by the number of lines splitTextToSize wraps it to; an absent or
\* empty text is <<>>.  A bullet item is its number of wrapped lines.
MaxParts == 3

\* Lines of a sub-paragraph: short ones, and ones about a page long (a page
\* holds 40 lines, the first page 38 below the summary heading).
PartLines == {1, 37, 38, 40, 41}

Paragraphs == UNION {[1..n -> PartLines] : n \in 0..MaxParts}

MarketFields == {"marketSize", "growthRate", "entryBarriers", "regulation"}

BaseDoc ==
  [summary         |-> <<1>>,
   market          |-> [f \in MarketFields |-> <<1>>],
   competition     |-> [tokens |-> <<1, 2>>, text |-> <<1>>],
   risks           |-> <<>>,
   recommendations |-> <<>>,
   benchmarks      |-> 0,
   estimates       |-> 0,
   composite       |-> FALSE,
   sample          |-> <<"e">>]

NoDoc ==
  [BaseDoc EXCEPT !.summary = <<>>,
                  !.market = [f \in MarketFields |-> <<>>],
                  !.competition = [tokens |-> <<>>, text |-> <<>>]]

\* Results that differ in their executive summary.
SummaryDocs == {[BaseDoc EXCEPT !.summary = p] : p \in Paragraphs}

\* Results that differ in what follows the summary: competition as tokens or
\* as plain text, risks (each the wrapped description), recommendations (each
\* one bullet item), benchmark and estimate entries, the composite score, and
\* the characters its strings hold (plain ones, or a rupee sign and a
\* no-break space).
TailDocs ==
  {[BaseDoc EXCEPT !.competition = c, !.risks = r, !.recommendations = rc,
                   !.benchmarks = b, !.estimates = e, !.composite = cs,
                   !.sample = t] :
     c \in {[tokens |-> <<1, 2>>, text |-> <<1>>],
            [tokens |-> <<>>, text |-> <<1>>],
            [tokens |-> <<>>, text |-> <<>>]},
     r \in {<<>>, << <<1>> >>, << <<>>, <<38>> >>},
     rc \in {<<>>, <<1>>, <<2, 45>>, <<39>>},
     b \in 0..1, e \in 0..1, cs \in BOOLEAN,
     t \in {<<"e">>, <<"U+20B9", "U+00A0">>}}

Docs == SummaryDocs \cup TailDocs

\* ---- the layout as a list of operations
Op(k, n, name) == [k |-> k, n |-> n, first |-> TRUE, name |-> name]

\* addParagraph(text): per sub-paragraph its lines, then y += 2.
RECURSIVE ParaOps(_)
ParaOps(parts) ==
  IF parts = <<>> THEN <<>>
  ELSE <<Op("line", Head(parts), ""), Op("gap", 0, "")>> \o ParaOps(Tail(parts))

RECURSIVE BulletItems(_)
BulletItems(items) ==
  IF items = <<>> THEN <<>>
  ELSE <<Op("bullet", Head(items), "")>> \o BulletItems(Tail(items))

\* addBullets(items): nothing for no items; else the items, then y += 2.
BulletOps(items) ==
  IF items = <<>> THEN <<>> ELSE BulletItems(items) \o <<Op("gap", 0, "")>>

\* for (const r of a.risks): the bold 'factor (impact)' line, the description.
RECURSIVE RiskOps(_)
RiskOps(rs) ==
  IF rs = <<>> THEN <<>>
  ELSE <<Op("riskHeader", 1, "")>> \o ParaOps(Head(rs)) \o RiskOps(Tail(rs))

\* for (const rec of a.recommendations) addBullets([text])
RECURSIVE RecOps(_)
RecOps(rs) ==
  IF rs = <<>> THEN <<>> ELSE BulletOps(<<Head(rs)>>) \o RecOps(Tail(rs))

\* n one-line paragraphs (a benchmark or an estimate entry each).
RECURSIVE EntryOps(_)
EntryOps(n) == IF n = 0 THEN <<>> ELSE ParaOps(<<1>>) \o EntryOps(n - 1)

\* The layout with the recommendations ahead of the risks.
LayoutRecommendationsFirst(d) ==
  <<Op("title", 2, "")>>
  \o <<Op("section", 2, "Executive Summary")>> \o ParaOps(d.summary)
  \o <<Op("section", 2, "Market Analysis")>>
  \o <<Op("label", 1, "Market Size")>> \o ParaOps(d.market["marketSize"])
  \o <<Op("label", 1, "Growth Rate")>> \o ParaOps(d.market["growthRate"])
  \o <<Op("label", 1, "Competition")>>
  \o (IF d.competition.tokens # <<>> THEN BulletOps(d.competition.tokens)
      ELSE ParaOps(d.competition.text))
  \o <<Op("label", 1, "Barriers to Entry")>> \o ParaOps(d.market["entryBarriers"])
  \o <<Op("label", 1, "Regulation")>> \o ParaOps(d.market["regulation"])
  \o (IF d.recommendations # <<>>
        THEN <<Op("section", 2, "Recommendations")>> \o RecOps(d.recommendations)
        ELSE <<>>)
  \o (IF d.risks # <<>>
        THEN <<Op("section", 2, "Key Risks")>> \o RiskOps(d.risks) ELSE <<>>)
  \o (IF d.benchmarks > 0
        THEN <<Op("section", 2, "Benchmarks")>> \o EntryOps(d.benchmarks)
        ELSE <<>>)
  \o (IF d.estimates > 0
        THEN <<Op("section", 2, "Benchmark Estimates")>>
             \o EntryOps(d.estimates) \o ParaOps(<<1>>)
        ELSE <<>>)
  \o (IF d.composite
        THEN <<Op("section", 2, "Composite Score")>> \o ParaOps(<<1>>)
        ELSE <<>>)

\* The body of downloadPdf from addTitle('') to the composite score.
Layout(d) ==
  <<Op("title", 2, "")>>
  \o <<Op("section", 2, "Executive Summary")>> \o ParaOps(d.summary)
  \o <<Op("section", 2, "Market Analysis")>>
  \o <<Op("label", 1, "Market Size")>> \o ParaOps(d.market["marketSize"])
  \o <<Op("label", 1, "Growth Rate")>> \o ParaOps(d.market["growthRate"])
  \o <<Op("label", 1, "Competition")>>
  \o (IF d.competition.tokens # <<>> THEN BulletOps(d.competition.tokens)
      ELSE ParaOps(d.competition.text))
  \o <<Op("label", 1, "Barriers to Entry")>> \o ParaOps(d.market["entryBarriers"])
  \o <<Op("label", 1, "Regulation")>> \o ParaOps(d.market["regulation"])
  \o (IF d.risks # <<>>
        THEN <<Op("section", 2, "Key Risks")>> \o RiskOps(d.risks) ELSE <<>>)
  \o (IF d.recommendations # <<>>
        THEN <<Op("section", 2, "Recommendations")>> \o RecOps(d.recommendations)
        ELSE <<>>)
  \o (IF d.benchmarks > 0
        THEN <<Op("section", 2, "Benchmarks")>> \o EntryOps(d.benchmarks)
        ELSE <<>>)
  \o (IF d.estimates > 0
        THEN <<Op("section", 2, "Benchmark Estimates")>>
             \o EntryOps(d.estimates) \o ParaOps(<<1>>)
        ELSE <<>>)
  \o (IF d.composite
        THEN <<Op("section", 2, "Composite Score")>> \o ParaOps(<<1>>)
        ELSE <<>>)

\* ---- the cursor
\* The page-break test on the cursor alone.
NeedsBreakCursorOnly(cy, neededLines) == cy > Printable

\* The test of ensureSpace.
NeedsBreak(cy, neededLines) == cy + neededLines * LineHeight > Printable

\* The cursor of the layout: c.y, c.pages, c.headers, c.breaks, c.blockBreaks.
Cursor ==
  [y |-> y, pages |-> pages, headers |-> headers, breaks |-> breaks,
   blockBreaks |-> blockBreaks]

\* ensureSpace whose page break draws no header.
EnsureSpaceNoHeader(c, neededLines) ==
  IF NeedsBreak(c.y, neededLines)
    THEN [c EXCEPT !.pages = @ + 1, !.breaks = @ + 1,
                   !.blockBreaks = @ + 1, !.y = Top]
    ELSE c

\* ensureSpace whose page break leaves the cursor where it was.
EnsureSpaceNoReset(c, neededLines) ==
  IF NeedsBreak(c.y, neededLines)
    THEN [c EXCEPT !.pages = @ + 1, !.headers = @ + 1, !.breaks = @ + 1,
                   !.blockBreaks = @ + 1]
    ELSE c

\* ensureSpace(neededLines): pdf.addPage(); addHeader(); y = margin +
\* headerHeight when the lines do not fit.
EnsureSpace(c, neededLines) ==
  IF NeedsBreak(c.y, neededLines)
    THEN [c EXCEPT !.pages = @ + 1, !.headers = @ + 1, !.breaks = @ + 1,
                   !.blockBreaks = @ + 1, !.y = Top]
    ELSE c

\* The title asking ensureSpace for more lines than a page holds.
NeededLinesTitlePage(op) ==
  IF op.k = "title" THEN 41
  ELSE IF op.k = "section" THEN 2
  ELSE IF op.k = "bullet" /\ op.first THEN op.n
  ELSE 1

\* The lines an operation asks ensureSpace for.
NeededLines(op) ==
  IF op.k \in {"title", "section"} THEN 2
  ELSE IF op.k = "bullet" /\ op.first THEN op.n
  ELSE 1

\* What an operation adds to y after drawing.
Advance(op) ==
  CASE op.k = "title"      -> LineHeight + 2
    [] op.k = "section"    -> LineHeight
    [] op.k = "label"      -> LineHeight - 1
    [] op.k = "riskHeader" -> LineHeight - 2
    [] op.k = "line"       -> LineHeight
    [] op.k = "bullet"     -> LineHeight
    [] op.k = "gap"        -> 2

\* The operations left once the head operation drew one line.
Rest(os) ==
  LET op == Head(os)
  IN  IF op.k \in {"line", "bullet"} /\ op.n > 1
        THEN <<[op EXCEPT !.n = @ - 1, !.first = FALSE]>> \o Tail(os)
        ELSE Tail(os)

\* The footer loop stamping the first page only.
PageCountOne(n) == 1

\* pdf.getNumberOfPages() || 1
PageCount(n) == IF n = 0 THEN 1 ELSE n

\* The stages of the export, by its position.
Stage(pc) ==
  CASE pc = "loading" -> "load"
    [] pc = "layout"  -> "layout"
    [] pc = "footers" -> "footers"
    [] pc = "saving"  -> "save"

\* The try block begun after the library load.
CaughtAfterLoad(stage) == stage # "load"

\* try { load, layout, footers, save } catch: every stage is inside.
Caught(stage) == stage \in {"load", "layout", "footers", "save"}

NoDraw == [kind |-> "none", page |-> 0, y |-> 0, text |-> <<>>]

\* The characters of the result in what an operation hands to pdf.text:
\* addParagraph and addBullets draw sanitizeText(...) of their text, the risk
\* header draws `${r.factor} (${r.impact || 'n/a'})` as it is, and titles,
\* section headings and labels are literals of the program.
DrawnText(op, t) ==
  CASE op.k \in {"line", "bullet"} -> SanitizeText(t)
    [] op.k = "riskHeader"         -> t
    [] OTHER                       -> <<>>

PdfIdle ==
  /\ doc = NoDoc
  /\ ops = <<>>
  /\ y = 0
  /\ pages = 0
  /\ headers = 0
  /\ breaks = 0
  /\ lastDraw = NoDraw
  /\ block = "none"
  /\ blockBreaks = 0
  /\ stamps = <<>>
  /\ pdfPc = "idle"
  /\ saved = 0
  /\ calls = 0
  /\ exports = 0
  /\ failedAt = "none"
  /\ escaped = FALSE


\* ------------------------------------------------ the cohort label helpers
\* A string is the sequence of its characters.
LowerChars == <<"a", "b", "c", "d", "e", "f", "g", "h", "i", "j", "k", "l", "m", "n", "o", "p", "q", "r", "s", "t", "u", "v", "w", "x", "y", "z">>

UpperChars == <<"A", "B", "C", "D", "E", "F", "G", "H", "I", "J", "K", "L", "M", "N", "O", "P", "Q", "R", "S", "T", "U", "V", "W", "X", "Y", "Z">>

Letters == Range(LowerChars) \cup Range(UpperChars)

Digits == {"0", "1", "2", "3", "4", "5", "6", "7", "8", "9"}

\* \s of a regular expression, and what trim() removes.
WhiteSpace == {" ", "\t", "\n", "U+00A0"}

IndexOf(c, cs) == CHOOSE i \in 1..Len(cs) : cs[i] = c

ToLowerChar(c) ==
  IF c \in Range(UpperChars) THEN LowerChars[IndexOf(c, UpperChars)] ELSE c

ToUpperChar(c) ==
  IF c \in Range(LowerChars) THEN UpperChars[IndexOf(c, LowerChars)] ELSE c

\* String.prototype.toLowerCase
LowerCase(t) == [i \in 1..Len(t) |-> ToLowerChar(t[i])]

\* String.prototype.trim
Trim(t) ==
  LET keep == {i \in 1..Len(t) : t[i] \notin WhiteSpace}
  IN  IF keep = {} THEN <<>>
      ELSE SubSeq(t, CHOOSE i \in keep : \A j \in keep : i <= j,
                     CHOOSE i \in keep : \A j \in keep : j <= i)

\* The literal w occurs in t at position i.
StartsAt(t, w, i) ==
  /\ i + Len(w) - 1 <= Len(t)
  /\ \A k \in 1..Len(w) : t[i + k - 1] = w[k]

\* /w/.test(t) for a literal w
Test(t, w) == \E i \in 1..Len(t) : StartsAt(t, w, i)

\* u matches \s*-?\s* entirely.
IsGap(u) ==
  /\ \A k \in 1..Len(u) : u[k] \in WhiteSpace \cup {"-"}
  /\ Cardinality({k \in 1..Len(u) : u[k] = "-"}) <= 1

\* The matches of head \s*-?\s* tail in t, as <<start of head, start of
\* tail>>.
GapMatches(t, head, tail) ==
  {m \in (1..Len(t)) \X (1..Len(t)) :
     /\ StartsAt(t, head, m[1])
     /\ m[2] >= m[1] + Len(head)
     /\ IsGap(SubSeq(t, m[1] + Len(head), m[2] - 1))
     /\ StartsAt(t, tail, m[2])}

Pre == <<"p", "r", "e">>
Seed == <<"s", "e", "e", "d">>
Angel == <<"a", "n", "g", "e", "l">>
Series == <<"s", "e", "r", "i", "e", "s">>
Growth == <<"g", "r", "o", "w", "t", "h">>
Late == <<"l", "a", "t", "e">>

\* /pre\s*-?\s*seed/.test(t)
TestPreSeed(t) == GapMatches(t, Pre, Seed) # {}

\* t.match(/series\s*-?\s*([a-z])/i): the captured letter of the leftmost
\* match, as a string; empty when there is no match.
MatchSeries(t) ==
  LET ms == {m \in GapMatches(t, Series, <<>>) :
               m[2] <= Len(t) /\ t[m[2]] \in Letters}
  IN  IF ms = {} THEN <<>>
      ELSE LET m == CHOOSE x \in ms : \A z \in ms : x[1] <= z[1]
           IN  <<t[m[2]]>>

\* .replace(/\s+/g, ' ')
CollapseSpaces(t) ==
  LET keep == {i \in 1..Len(t) :
                 ~(t[i] \in WhiteSpace /\ i > 1 /\ t[i - 1] \in WhiteSpace)}
      at(k) == CHOOSE i \in keep : Cardinality({j \in keep : j < i}) = k - 1
  IN  [k \in 1..Cardinality(keep) |->
         IF t[at(k)] \in WhiteSpace THEN " " ELSE t[at(k)]]

\* titleCase(s): lower case, split on \s+, first letter of each word upper
\* case, joined by single blanks.
TitleCase(t) ==
  LET c == CollapseSpaces(LowerCase(t))
  IN  [i \in 1..Len(c) |->
         IF i = 1 \/ c[i - 1] = " " THEN ToUpperChar(c[i]) ELSE c[i]]

\* The longest fallback label shown in full.
StageLabelMax == 20

\* The fallback of getStageLabel: characters outside [a-z\s-] become blanks,
\* blanks are collapsed and trimmed, the rest is title-cased and truncated.
StageFallback(t) ==
  LET blanked == [i \in 1..Len(t) |->
                    IF t[i] \in Letters \cup WhiteSpace \cup {"-"}
                      THEN t[i] ELSE " "]
      titled == TitleCase(Trim(CollapseSpaces(blanked)))
  IN  IF Len(titled) > StageLabelMax
        THEN SubSeq(titled, 1, StageLabelMax) \o <<"U+2026">>
        ELSE titled

LabelPreSeed == <<"P", "r", "e", "-", "S", "e", "e", "d">>
LabelSeed == <<"S", "e", "e", "d">>
LabelAngel == <<"A", "n", "g", "e", "l">>
LabelSeries == <<"S", "e", "r", "i", "e", "s", " ">>
LabelGrowth == <<"G", "r", "o", "w", "t", "h">>

\* getStageLabel with the seed test ahead of the pre-seed test.
GetStageLabelSeedFirst(input) ==
  LET t == LowerCase(Trim(input))
  IN  IF t = <<>> THEN <<>>
      ELSE IF Test(t, Seed) THEN LabelSeed
      ELSE IF TestPreSeed(t) THEN LabelPreSeed
      ELSE IF Test(t, Angel) THEN LabelAngel
      ELSE IF MatchSeries(t) # <<>>
        THEN LabelSeries \o <<ToUpperChar(MatchSeries(t)[1])>>
      ELSE IF Test(t, Growth) \/ Test(t, Late) THEN LabelGrowth
      ELSE StageFallback(t)

\* getStageLabel() on the stage string input.
GetStageLabel(input) ==
  LET t == LowerCase(Trim(input))
  IN  IF t = <<>> THEN <<>>
      ELSE IF TestPreSeed(t) THEN LabelPreSeed
      ELSE IF Test(t, Seed) THEN LabelSeed
      ELSE IF Test(t, Angel) THEN LabelAngel
      ELSE IF MatchSeries(t) # <<>>
        THEN LabelSeries \o <<ToUpperChar(MatchSeries(t)[1])>>
      ELSE IF Test(t, Growth) \/ Test(t, Late) THEN LabelGrowth
      ELSE StageFallback(t)

\* The pieces stage strings are put together from, and how many of them.
MaxAtoms == 3

Blank == <<" ">>
Dash == <<"-">>

StageAtoms ==
  {Pre, Seed, Angel, Series, Growth, Late, <<"a">>, <<"B">>, Blank, Dash,
   <<"1">>}

\* The pieces written one after the other.
RECURSIVE Concat(_)
Concat(ps) == IF ps = <<>> THEN <<>> ELSE Head(ps) \o Concat(Tail(ps))

\* [\s,;\/|·]: the separators getSectorChips splits on.
Separators == WhiteSpace \cup {",", ";", "/", "|", "U+00B7"}

\* raw.split(/[\s,;\/|·]+/g).map(t => t.trim()).filter(Boolean): the maximal
\* runs of characters that are no separators, from position i on, cur being
\* the run under construction.
RECURSIVE SplitFrom(_, _, _)
SplitFrom(t, i, cur) ==
  IF i > Len(t) THEN (IF cur = <<>> THEN <<>> ELSE <<cur>>)
  ELSE IF t[i] \in Separators
    THEN (IF cur = <<>> THEN <<>> ELSE <<cur>>) \o SplitFrom(t, i + 1, <<>>)
  ELSE SplitFrom(t, i + 1, Append(cur, t[i]))

\* /\d/.test(tok)
HasDigit(tok) == \E k \in 1..Len(tok) : tok[k] \in Digits

\* /^[A-Za-z][A-Za-z&+.-]*$/.test(tok)
AlphaIsh(tok) ==
  /\ Len(tok) > 0
  /\ tok[1] \in Letters
  /\ \A k \in 2..Len(tok) : tok[k] \in Letters \cup {"&", "+", ".", "-"}

\* The stop set.
Stop ==
  {<<"m">>, <<"m", "n">>, <<"m", "o">>, <<"m", "o", "s">>,
   <<"m", "o", "n", "t", "h">>, <<"m", "o", "n", "t", "h", "s">>, <<"k">>,
   <<"c", "r">>, <<"c", "r", "o", "r", "e">>, <<"l", "a", "k", "h">>,
   <<"l", "a", "k", "h", "s">>, <<"b", "n">>, <<"b">>, <<"m", "m">>,
   <<"b", "i", "l", "l", "i", "o", "n">>,
   <<"m", "i", "l", "l", "i", "o", "n">>, <<"y", "o", "y">>,
   <<"m", "o", "m">>, <<"a", "r", "r">>, <<"m", "r", "r">>,
   <<"l", "t", "v">>, <<"c", "a", "c">>, <<"m", "a", "r", "g", "i", "n">>,
   <<"g", "r", "o", "w", "t", "h">>, <<"c", "h", "u", "r", "n">>,
   <<"h", "e", "a", "d", "c", "o", "u", "n", "t">>,
   <<"r", "u", "n", "w", "a", "y">>, <<"i", "n">>, <<"t", "h", "e">>,
   <<"a", "n", "d">>, <<"o", "f">>, <<"t", "o">>, <<"f", "o", "r">>,
   <<"w", "i", "t", "h">>, <<"o", "n">>, <<"a", "t">>, <<"b", "y">>,
   <<"f", "r", "o", "m">>, <<"a", "s">>, <<"i", "s">>, <<"a", "r", "e">>,
   <<"b", "e">>, <<"w", "h", "e", "r", "e">>,
   <<"c", "o", "m", "p", "l", "i", "a", "n", "c", "e">>,
   <<"c", "o", "m", "p", "e", "t", "i", "t", "i", "v", "e">>,
   <<"c", "o", "m", "p", "e", "t", "i", "t", "i", "o", "n">>,
   <<"s", "e", "c", "t", "o", "r">>, <<"s", "t", "a", "g", "e">>,
   <<"b", "e", "n", "c", "h", "m", "a", "r", "k", "s">>,
   <<"b", "e", "n", "c", "h", "m", "a", "r", "k">>,
   <<"c", "o", "m", "p", "a", "n", "y">>, <<"d", "e", "c", "k">>,
   <<"s", "u", "m", "m", "a", "r", "y">>,
   <<"o", "v", "e", "r", "v", "i", "e", "w">>,
   <<"b", "u", "s", "i", "n", "e", "s", "s">>, <<"p", "l", "a", "n">>,
   <<"g", "t", "m">>, <<"g", "o">>, <<"m", "a", "r", "k", "e", "t">>,
   <<"a", "n", "a", "l", "y", "s", "i", "s">>,
   <<"r", "e", "g", "u", "l", "a", "t", "i", "o", "n">>,
   <<"e", "n", "t", "r", "y">>, <<"b", "a", "r", "r", "i", "e", "r", "s">>}

\* canonicalMap, an object literal: its own properties, as <<key, value>>.
CanonicalEntries ==
  {<<<<"s", "a", "a", "s">>, "SaaS">>,
   <<<<"s", "o", "f", "t", "w", "a", "r", "e">>, "SaaS">>,
   <<<<"e", "n", "t", "e", "r", "p", "r", "i", "s", "e">>, "SaaS">>,
   <<<<"f", "i", "n", "t", "e", "c", "h">>, "Fintech">>,
   <<<<"f", "i", "n", "a", "n", "c", "e">>, "Fintech">>,
   <<<<"p", "a", "y", "m", "e", "n", "t", "s">>, "Fintech">>,
   <<<<"p", "a", "y", "t", "e", "c", "h">>, "Fintech">>,
   <<<<"b", "f", "s", "i">>, "BFSI">>,
   <<<<"i", "n", "s", "u", "r", "t", "e", "c", "h">>, "Insurtech">>,
   <<<<"i", "n", "s", "u", "r", "e", "t", "e", "c", "h">>, "Insurtech">>,
   <<<<"e", "c", "o", "m", "m", "e", "r", "c", "e">>, "Ecommerce">>,
   <<<<"e", "c", "o", "m">>, "Ecommerce">>,
   <<<<"c", "o", "m", "m", "e", "r", "c", "e">>, "Ecommerce">>,
   <<<<"m", "a", "r", "k", "e", "t", "p", "l", "a", "c", "e">>, "Marketplace">>,
   <<<<"m", "a", "r", "k", "e", "t", "p", "l", "a", "c", "e", "s">>, "Marketplace">>,
   <<<<"h", "e", "a", "l", "t", "h", "t", "e", "c", "h">>, "Healthtech">>,
   <<<<"h", "e", "a", "l", "t", "h", "c", "a", "r", "e">>, "Healthtech">>,
   <<<<"m", "e", "d", "t", "e", "c", "h">>, "Healthtech">>,
   <<<<"e", "d", "t", "e", "c", "h">>, "Edtech">>,
   <<<<"m", "o", "b", "i", "l", "i", "t", "y">>, "Mobility">>,
   <<<<"l", "o", "g", "i", "s", "t", "i", "c", "s">>, "Logistics">>,
   <<<<"g", "a", "m", "i", "n", "g">>, "Gaming">>, <<<<"a", "i">>, "AI">>,
   <<<<"m", "l">>, "AI">>,
   <<<<"s", "e", "c", "u", "r", "i", "t", "y">>, "Security">>,
   <<<<"d", "e", "v", "t", "o", "o", "l", "s">>, "DevTools">>,
   <<<<"d", "e", "v", "e", "l", "o", "p", "e", "r">>, "DevTools">>,
   <<<<"p", "r", "o", "p", "t", "e", "c", "h">>, "Proptech">>,
   <<<<"r", "e", "a", "l", "e", "s", "t", "a", "t", "e">>, "Proptech">>,
   <<<<"t", "r", "a", "v", "e", "l">>, "Travel">>,
   <<<<"m", "e", "d", "i", "a">>, "Media">>,
   <<<<"a", "g", "r", "i", "t", "e", "c", "h">>, "Agritech">>,
   <<<<"a", "g", "r", "i">>, "Agritech">>, <<<<"h", "r">>, "HR">>,
   <<<<"h", "r", "t", "e", "c", "h">>, "HR">>,
   <<<<"r", "e", "s", "a", "l", "e">>, "Resale">>}

\* The properties every object literal inherits from Object.prototype: a
\* lookup canonicalMap[name] of one of them yields a function or an object.
ObjectPrototype ==
  {<<"c", "o", "n", "s", "t", "r", "u", "c", "t", "o", "r">>,
   <<"t", "o", "S", "t", "r", "i", "n", "g">>,
   <<"v", "a", "l", "u", "e", "O", "f">>,
   <<"h", "a", "s", "O", "w", "n", "P", "r", "o", "p", "e", "r", "t", "y">>,
   <<"i", "s", "P", "r", "o", "t", "o", "t", "y", "p", "e", "O", "f">>,
   <<"p", "r", "o", "p", "e", "r", "t", "y", "I", "s", "E", "n", "u", "m", "e", "r", "a", "b", "l", "e">>,
   <<"t", "o", "L", "o", "c", "a", "l", "e", "S", "t", "r", "i", "n", "g">>,
   <<"_", "_", "p", "r", "o", "t", "o", "_", "_">>}

\* The value of such an inherited property: truthy, and no string.
Inherited == "[inherited]"

\* A lookup that finds no property.
Undefined == ""

\* canonicalMap[tok]
Lookup(tok) ==
  IF \E e \in CanonicalEntries : e[1] = tok
    THEN (CHOOSE e \in CanonicalEntries : e[1] = tok)[2]
  ELSE IF tok \in ObjectPrototype THEN Inherited
  ELSE Undefined

\* if (chips.length >= 4) break
MaxChips == 4

\* The loop of getSectorChips over the tokens, acc being chips.
RECURSIVE ChipsOf(_, _)
ChipsOf(toks, acc) ==
  IF toks = <<>> THEN acc
  ELSE LET tokRaw == Head(toks)
           tok == LowerCase(tokRaw)
           canonical == Lookup(tok)
           pushed == IF canonical \in Range(acc) THEN acc
                     ELSE Append(acc, canonical)
       IN  IF \/ HasDigit(tokRaw)
              \/ ~AlphaIsh(tokRaw)
              \/ Len(tok) <= 1
              \/ tok \in Stop
              \/ canonical = Undefined
             THEN ChipsOf(Tail(toks), acc)
           ELSE IF Len(pushed) >= MaxChips THEN pushed
           ELSE ChipsOf(Tail(toks), pushed)

\* getSectorChips() on the sector string input.
GetSectorChips(input) ==
  IF input = <<>> THEN <<>> ELSE ChipsOf(SplitFrom(input, 1, <<>>), <<>>)

\* The words sector strings are put together from, and how many of them.
MaxTokens == 5

SectorWords ==
  {<<"f", "i", "n", "t", "e", "c", "h">>,
   <<"p", "a", "y", "m", "e", "n", "t", "s">>, <<"S", "a", "a", "S">>,
   <<"a", "i">>, <<"g", "a", "m", "i", "n", "g">>,
   <<"e", "d", "t", "e", "c", "h">>, <<"w", "e", "b", "3">>,
   <<"g", "r", "o", "w", "t", "h">>, <<"&", "c", "o">>,
   <<"c", "o", "n", "s", "t", "r", "u", "c", "t", "o", "r">>}

\* The separators written between the words of a sector string, in turn.
SectorSeps == <<<<",", " ">>, <<"/">>, <<" ", "|", " ">>, <<";">>>>

\* The words written one after the other, separated.
RECURSIVE JoinFrom(_, _)
JoinFrom(ws, i) ==
  IF i > Len(ws) THEN <<>>
  ELSE ws[i]
       \o (IF i < Len(ws) THEN SectorSeps[((i - 1) % Len(SectorSeps)) + 1]
           ELSE <<>>)
       \o JoinFrom(ws, i + 1)

LabelIdle ==
  /\ pieces = <<>> /\ raw = <<>> /\ called = FALSE
  /\ stageLabel = <<>> /\ chips = <<>>

\* ------------------------------------------------ the doughnut of a pass
\* score.composite is in thousandths (0.425 is 425); the composites followed
\* lie up to MaxOver thousandths outside [0, 1].
MaxOver == 20

CompositeValues == (0 - MaxOver)..(1000 + MaxOver)

\* analysis.score: absent, with a null composite, or with a number.
NoScore == [present |-> FALSE, isNull |-> TRUE, composite |-> 0]
NullScore == [present |-> TRUE, isNull |-> TRUE, composite |-> 0]

Scores ==
  {NoScore, NullScore}
  \cup {[present |-> TRUE, isNull |-> FALSE, composite |-> c] :
          c \in CompositeValues}

\* document.getElementById('doughnutChart'): null, or a canvas with its box.
DoughEls == {"absent"} \cup Boxes

\* The data pair without the clamp.
DoughnutDataUnclamped(c) == <<Round(c, 10), 100 - Round(c, 10)>>

\* comp = Math.max(0, Math.min(1, composite)); val = Math.round(comp * 100);
\* rem = 100 - val; data: [val, rem]
DoughnutData(c) ==
  LET comp == IF c < 0 THEN 0 ELSE IF c > 1000 THEN 1000 ELSE c
      val == Round(comp, 10)
      rem == 100 - val
  IN  <<val, rem>>

NoDoughnut == [step |-> "none", data |-> <<>>]

\* The doughnut step of renderCharts: skipped without a composite; without
\* a canvas nothing is built; a canvas that cannot be sized aborts the pass;
\* else the chart is built on [val, rem].
Doughnut(s, el) ==
  IF s.present /\ ~s.isNull
    THEN IF el = "absent" THEN [step |-> "noCanvas", data |-> <<>>]
         ELSE IF ~EnsureCanvasSize(el) THEN [step |-> "aborted", data |-> <<>>]
         ELSE [step |-> "built", data |-> DoughnutData(s.composite)]
    ELSE [step |-> "skipped", data |-> <<>>]

\* ------------------------------------------- the alignment of a drawn line
\* The characters of a wrapped line.
LineChars == {"a", " ", "\t"}

MaxLineLen == 4

\* Lines of one sub-paragraph or bullet item followed.
MaxLines == 3

LineTexts == UNION {[1..n -> LineChars] : n \in 0..MaxLineLen}

\* line.split(/\s+/g).length - 1: the maximal runs of white space in the line.
Gaps(t) ==
  Cardinality({i \in 1..Len(t) :
                 t[i] \in WhiteSpace /\ (i = 1 \/ t[i - 1] \notin WhiteSpace)})

\* A paragraph line justified whenever its trimmed text holds a blank, the
\* last line too.
ParagraphLineJustifyLast(t, i, n) ==
  IF Includes(Trim(t), " ") /\ Gaps(t) > 0 THEN "justified" ELSE "left"

\* One line of addParagraph: hasSpace = line.trim().includes(' '); isLast =
\* i === lines.length - 1; justified word by word when neither, and the line
\* splits into more than one word; else drawn at the margin.
ParagraphLine(t, i, n) ==
  LET hasSpace == Includes(Trim(t), " ")
      isLast == i = n
  IN  IF ~isLast /\ hasSpace
        THEN (IF Gaps(t) <= 0 THEN "left" ELSE "justified")
        ELSE "left"

\* One line of addBullets: pdf.text at the bullet indent.
BulletLine(t, i, n) == "left"

NoLine == [text |-> <<>>, index |-> 1, count |-> 1, via |-> "none"]

\* --------------------------------------------- the competition of a result
\* The characters of a competition text: a letter, a blank, and the four
\* delimiters of tokenize.
CompChars == {"a", " ", ",", ";", "\n", "U+2022"}

MaxCompLen == 3

CompTexts == UNION {[1..n -> CompChars] : n \in 0..MaxCompLen}

\* [\n\u2022;,]: the delimiters tokenize splits at.
Delimiters == {"\n", "U+2022", ";", ","}

\* text.split(/[\n\u2022;,]/g).map(s => s.trim()).filter(Boolean), from
\* position i on, cur being the piece under construction.
RECURSIVE TokensFrom(_, _, _)
TokensFrom(t, i, cur) ==
  LET piece == IF Trim(cur) = <<>> THEN <<>> ELSE <<Trim(cur)>>
  IN  IF i > Len(t) THEN piece
      ELSE IF t[i] \in Delimiters THEN piece \o TokensFrom(t, i + 1, <<>>)
      ELSE TokensFrom(t, i + 1, Append(cur, t[i]))

\* tokenize(text)
Tokenize(t) == IF t = <<>> THEN <<>> ELSE TokensFrom(t, 1, <<>>)

NoRendering == [kind |-> "none", items |-> <<>>]

\* compTokens = tokenize(competition); addBullets(compTokens) if it has
\* tokens, else addParagraph(competition), which draws nothing for an empty
\* text.
RenderCompetition(t) ==
  LET compTokens == Tokenize(t)
  IN  IF Len(compTokens) > 0 THEN [kind |-> "bullets", items |-> compTokens]
      ELSE IF t = <<>> THEN [kind |-> "nothing", items |-> <<>>]
      ELSE [kind |-> "paragraph", items |-> <<t>>]

UnitIdle ==
  /\ score = NoScore /\ doughEl = "absent" /\ doughnut = NoDoughnut
  /\ wrapped = NoLine /\ drawn = "none"
  /\ competition = <<>> /\ rendering = NoRendering

\* ------------------------------------------------------------------- Init
Init ==
  /\ analysis \in Analyses
  /\ view = "created"
  /\ charts = <<>>
  /\ live = {}
  /\ canvas = [s \in Slots |-> FALSE]
  /\ ro = FALSE /\ io = FALSE
  /\ isRendering = FALSE
  /\ pendingRender = FALSE
  /\ renderTimer = 0
  /\ timers = {}
  /\ renderAttempts = 0
  /\ awaiting = 0
  /\ chartJs = "notLoaded"
  /\ passes = 0
  /\ outcome = "none"
  /\ isGeneratingPdf = FALSE
  /\ MapIdle
  /\ TextIdle
  /\ PdfIdle
  /\ UnitIdle
  /\ LabelIdle

\* ---------------------------------------------------------------- document
\* A canvas element appears under a slot id.
CanvasMount(slot) ==
  /\ ~canvas[slot]
  /\ canvas' = [canvas EXCEPT ![slot] = TRUE]
  /\ UNCHANGED <<analysis, view, charts, live, ro, io, isRendering,
                 pendingRender, renderTimer, timers, renderAttempts, awaiting,
                 chartJs, passes, outcome, isGeneratingPdf>>
  /\ UNCHANGED aux

\* The element leaves the document; a chart bound to it stays bound to the
\* detached element.
CanvasUnmount(slot) ==
  /\ canvas[slot]
  /\ canvas' = [canvas EXCEPT ![slot] = FALSE]
  /\ live' = {IF c.slot = slot THEN [c EXCEPT !.attached = FALSE] ELSE c
                : c \in live}
  /\ UNCHANGED <<analysis, view, charts, ro, io, isRendering,
                 pendingRender, renderTimer, timers, renderAttempts, awaiting,
                 chartJs, passes, outcome, isGeneratingPdf>>
  /\ UNCHANGED aux

\* ---------------------------------------------------------------- lifecycle
\* ngAfterViewInit: first request, and the observers when the container
\* exists.
NgAfterViewInit(container) ==
  /\ view = "created"
  /\ view' = "mounted"
  /\ SetSched(IF analysis.present THEN ScheduleRender(Sched, 0) ELSE Sched)
  /\ ro' = container /\ io' = container
  /\ UNCHANGED <<analysis, charts, live, canvas, renderAttempts, awaiting,
                 chartJs, passes, outcome, isGeneratingPdf>>
  /\ UNCHANGED aux

\* ngOnDestroy: destroys the tracked charts, disconnects the observers.
NgOnDestroy ==
  /\ view = "mounted"
  /\ view' = "destroyed"
  /\ live' = DestroyAll(live, Range(charts))
  /\ charts' = <<>>
  /\ ro' = FALSE /\ io' = FALSE
  /\ UNCHANGED <<analysis, canvas, isRendering, pendingRender, renderTimer,
                 timers, renderAttempts, awaiting, chartJs, passes, outcome,
                 isGeneratingPdf>>
  /\ UNCHANGED aux

\* The observers' guard dropped: no chart ever counts as existing.
ChartsExistNever(cs) == FALSE

\* this.charts.length > 0: the observers' guard.
ChartsExist(cs) == Len(cs) > 0

\* The ResizeObserver callback.
OnResize ==
  /\ ro
  /\ SetSched(IF ChartsExist(charts) THEN Sched ELSE ScheduleRender(Sched, 120))
  /\ UNCHANGED <<analysis, view, charts, live, canvas, ro, io, renderAttempts,
                 awaiting, chartJs, passes, outcome, isGeneratingPdf>>
  /\ UNCHANGED aux

\* The IntersectionObserver callback with an intersecting first entry.
OnVisible ==
  /\ io
  /\ SetSched(IF ~ChartsExist(charts) THEN ScheduleRender(Sched, 0) ELSE Sched)
  /\ UNCHANGED <<analysis, view, charts, live, canvas, ro, io, renderAttempts,
                 awaiting, chartJs, passes, outcome, isGeneratingPdf>>
  /\ UNCHANGED aux

\* ------------------------------------------------------------- renderCharts
\* The cap test off by one.
ExceedsCapOffByOne(n) == n > MAX_RENDER_ATTEMPTS + 1

\* The cap test with >= in place of >.
ExceedsCapAtCap(n) == n >= MAX_RENDER_ATTEMPTS

\* The cap test of renderCharts on the incremented counter.
ExceedsCap(n) == n > MAX_RENDER_ATTEMPTS

\* The flag is not set before the await.
EnterPassSkipped(flag) == flag

\* this.isRendering = true, set before the await.
EnterPass(flag) == TRUE

\* A timer fires: renderCharts runs up to its await.
TimerFires(t) ==
  /\ t \in timers
  /\ renderAttempts < AttemptBound
  /\ timers' = timers \ {t}
  /\ UNCHANGED renderTimer
  /\ IF ~analysis.present
       THEN /\ outcome' = "noAnalysis"
            /\ UNCHANGED <<isRendering, pendingRender, renderAttempts, awaiting>>
     ELSE IF isRendering
       THEN /\ pendingRender' = TRUE
            /\ UNCHANGED <<isRendering, renderAttempts, awaiting, outcome>>
     ELSE /\ renderAttempts' = renderAttempts + 1
          /\ IF ExceedsCap(renderAttempts + 1)
               THEN /\ outcome' = "capped"
                    /\ UNCHANGED <<isRendering, pendingRender, awaiting>>
               ELSE /\ isRendering' = EnterPass(isRendering)
                    /\ awaiting' = awaiting + 1
                    /\ outcome' = "started"
                    /\ UNCHANGED pendingRender
  /\ UNCHANGED <<analysis, view, charts, live, canvas, ro, io, chartJs,
                 passes, isGeneratingPdf>>
  /\ UNCHANGED aux

\* import('chart.js/auto') resolves: the rest of renderCharts runs.
ChartLoadResolves(m) ==
  /\ awaiting > 0
  /\ \A s \in Slots : ~(canvas[s] /\ WantsChart(analysis, s)) => m[s] = "sized"
  /\ LET st == RenderBody(analysis,
                 [charts |-> charts, live |-> live, canvas |-> canvas,
                  sched |-> Sched, aborted |-> FALSE, retry |-> FALSE],
                 renderAttempts, m)
     IN  /\ charts' = st.charts
         /\ live' = st.live
         /\ SetSched(st.sched)
         /\ outcome' = IF st.aborted THEN "aborted"
                       ELSE IF st.retry THEN "retry" ELSE "completed"
  /\ awaiting' = awaiting - 1
  /\ chartJs' = "loaded"
  /\ passes' = passes + 1
  /\ UNCHANGED <<analysis, view, canvas, ro, io, renderAttempts, isGeneratingPdf>>
  /\ UNCHANGED aux

\* import('chart.js/auto') rejects: renderCharts ends with the rejection.
ChartLoadFails ==
  /\ awaiting > 0
  /\ chartJs = "notLoaded"
  /\ awaiting' = awaiting - 1
  /\ outcome' = "loadFailed"
  /\ UNCHANGED <<analysis, view, charts, live, canvas, ro, io, isRendering,
                 pendingRender, renderTimer, timers, renderAttempts, chartJs,
                 passes, isGeneratingPdf>>
  /\ UNCHANGED aux

\* -------------------------------------------------------------- downloadPdf
\* The component's flags.
\* The guard of downloadPdf without its test of the flag.
AcceptsWhileBusy(a, busy) == a.present

\* if (!this.analysis || this.isGeneratingPdf) return;
Accepts(a, busy) == a.present /\ ~busy

Flags ==
  [isRendering |-> isRendering, pendingRender |-> pendingRender,
   isGeneratingPdf |-> isGeneratingPdf]

\* One busy flag shared by the export and the render pass.
BeginExportSharedFlag(f) ==
  [f EXCEPT !.isGeneratingPdf = TRUE, !.isRendering = TRUE]

\* this.isGeneratingPdf = true: the only field downloadPdf writes before
\* its await.
BeginExport(f) == [f EXCEPT !.isGeneratingPdf = TRUE]

\* downloadPdf up to its await.
DownloadPdf ==
  /\ view = "mounted"
  /\ Accepts(analysis, isGeneratingPdf)
  /\ LET f == BeginExport(Flags)
     IN  /\ isGeneratingPdf' = f.isGeneratingPdf
         /\ isRendering' = f.isRendering
         /\ pendingRender' = f.pendingRender
  /\ UNCHANGED <<analysis, view, charts, live, canvas, ro, io,
                 renderTimer, timers, renderAttempts, awaiting,
                 chartJs, passes, outcome>>
  /\ UNCHANGED aux

\* import('jspdf') resolves: layout, footers and save run inside the try;
\* a stage that raises is caught; finally clears the flag.
PdfLoadResolves ==
  /\ isGeneratingPdf
  /\ isGeneratingPdf' = FALSE
  /\ UNCHANGED <<analysis, view, charts, live, canvas, ro, io, isRendering,
                 pendingRender, renderTimer, timers, renderAttempts, awaiting,
                 chartJs, passes, outcome>>
  /\ UNCHANGED aux

\* import('jspdf') rejects: caught, finally clears the flag.
PdfLoadFails ==
  /\ isGeneratingPdf
  /\ isGeneratingPdf' = FALSE
  /\ UNCHANGED <<analysis, view, charts, live, canvas, ro, io, isRendering,
                 pendingRender, renderTimer, timers, renderAttempts, awaiting,
                 chartJs, passes, outcome>>
  /\ UNCHANGED aux

\* --------------------------------------------------------------------- Next
Next ==
  \/ \E s \in Slots : CanvasMount(s)
  \/ \E s \in Slots : CanvasUnmount(s)
  \/ \E c \in BOOLEAN : NgAfterViewInit(c)
  \/ NgOnDestroy
  \/ OnResize
  \/ OnVisible
  \/ \E t \in timers : TimerFires(t)
  \/ \E m \in Measures : ChartLoadResolves(m)
  \/ ChartLoadFails
  \/ DownloadPdf
  \/ PdfLoadResolves
  \/ PdfLoadFails

Spec == Init /\ [][Next]_vars

\* The view whose canvases never mount: document.getElementById finds none
\* of the three slots at any time.
NextNoCanvas ==
  \/ \E c \in BOOLEAN : NgAfterViewInit(c)
  \/ NgOnDestroy
  \/ OnResize
  \/ OnVisible
  \/ \E t \in timers : TimerFires(t)
  \/ \E m \in Measures : ChartLoadResolves(m)
  \/ ChartLoadFails
  \/ DownloadPdf
  \/ PdfLoadResolves
  \/ PdfLoadFails

SpecNoCanvas == Init /\ [][NextNoCanvas]_vars

\* The event loop runs every armed timer's callback, and a pending
\* import('chart.js/auto') settles: it resolves or rejects.
TimerRuns == \E t \in timers : TimerFires(t)

AllSized == [s \in Slots |-> "sized"]

ChartLoadSettles == (\E m \in Measures : ChartLoadResolves(m)) \/ ChartLoadFails

Fairness == WF_vars(TimerRuns) /\ WF_vars(ChartLoadSettles)

SpecLive == Spec /\ Fairness

\* The view whose canvases never mount and that receives no request after
\* the one of ngAfterViewInit: neither observer calls back.
NextQuiet ==
  \/ \E c \in BOOLEAN : NgAfterViewInit(c)
  \/ NgOnDestroy
  \/ \E t \in timers : TimerFires(t)
  \/ \E m \in Measures : ChartLoadResolves(m)
  \/ ChartLoadFails
  \/ DownloadPdf
  \/ PdfLoadResolves
  \/ PdfLoadFails

SpecQuiet == Init /\ [][NextQuiet]_vars /\ Fairness


\* --------------------------------------------- the mapping step on its own
\* The dashboard at rest with result a in view state v: no request was made.
RenderAt(a, v) ==
  /\ analysis = a
  /\ view = v
  /\ charts = <<>>
  /\ live = {}
  /\ canvas = [s \in Slots |-> FALSE]
  /\ ro = FALSE /\ io = FALSE
  /\ isRendering = FALSE
  /\ pendingRender = FALSE
  /\ renderTimer = 0
  /\ timers = {}
  /\ renderAttempts = 0
  /\ awaiting = 0
  /\ chartJs = "notLoaded"
  /\ passes = 0
  /\ outcome = "none"
  /\ isGeneratingPdf = FALSE

RenderIdle == RenderAt(NoAnalysis, "created")

InitMap ==
  /\ RenderIdle
  /\ LabelIdle
  /\ \E key \in FocusKeys :
       \E bk \in SUBSET {key, OtherKey}, ek \in SUBSET {key, OtherKey} :
         \E b \in BenchMaps(bk), e \in EstMaps(ek),
            l \in Labels, m \in Metrics(key) :
           result = MakeResult(key, bk, b, ek, e, l, m)
  /\ series = NoSeries
  /\ TextIdle
  /\ PdfIdle
  /\ UnitIdle

\* The mapping step of a pass over the result.
MapChartData ==
  /\ ~series.mapped
  /\ series' = MapSeries(result)
  /\ UNCHANGED <<result, renderVars, textVars, pdfVars, labelVars, unitVars>>

NextMap == MapChartData

SpecMap == InitMap /\ [][NextMap]_vars


\* ------------------------------------------------- the sanitizer on its own
InitText ==
  /\ RenderIdle
  /\ LabelIdle
  /\ MapIdle
  /\ PdfIdle
  /\ UnitIdle
  /\ text \in Texts
  /\ cleaned = <<>>

\* sanitizeText(text)
SanitizeOnce ==
  /\ Len(cleaned) = 0
  /\ cleaned' = <<SanitizeText(text)>>
  /\ UNCHANGED <<text, renderVars, mapVars, pdfVars, labelVars, unitVars>>

\* sanitizeText of the sanitized text
SanitizeAgain ==
  /\ Len(cleaned) = 1
  /\ cleaned' = Append(cleaned, SanitizeText(cleaned[1]))
  /\ UNCHANGED <<text, renderVars, mapVars, pdfVars, labelVars, unitVars>>

NextText == SanitizeOnce \/ SanitizeAgain

SpecText == InitText /\ [][NextText]_vars



\* ------------------------------------------- the stage label on its own
InitStage ==
  /\ RenderIdle
  /\ MapIdle
  /\ TextIdle
  /\ PdfIdle
  /\ UnitIdle
  /\ \E n \in 0..MaxAtoms : pieces \in [1..n -> StageAtoms]
  /\ raw = Concat(pieces)
  /\ called = FALSE
  /\ stageLabel = <<>>
  /\ chips = <<>>

\* getStageLabel() with cohort.stage = raw
CallGetStageLabel ==
  /\ ~called
  /\ called' = TRUE
  /\ stageLabel' = GetStageLabel(raw)
  /\ UNCHANGED <<pieces, raw, chips, renderVars, mapVars, textVars, pdfVars,
                 unitVars>>

NextStage == CallGetStageLabel

SpecStage == InitStage /\ [][NextStage]_vars

\* ------------------------------------------ the sector chips on their own
InitSector ==
  /\ RenderIdle
  /\ MapIdle
  /\ TextIdle
  /\ PdfIdle
  /\ UnitIdle
  /\ \E n \in 0..MaxTokens : pieces \in [1..n -> SectorWords]
  /\ raw = JoinFrom(pieces, 1)
  /\ called = FALSE
  /\ stageLabel = <<>>
  /\ chips = <<>>

\* getSectorChips() with cohort.sector = raw
CallGetSectorChips ==
  /\ ~called
  /\ called' = TRUE
  /\ chips' = GetSectorChips(raw)
  /\ UNCHANGED <<pieces, raw, stageLabel, renderVars, mapVars, textVars,
                 pdfVars, unitVars>>

NextSector == CallGetSectorChips

SpecSector == InitSector /\ [][NextSector]_vars

\* --------------------------------------------------- the export on its own
\* The result on screen while the export runs.
ExportedAnalysis ==
  [present |-> TRUE, benchmarks |-> {}, estimates |-> {},
   composite |-> NoComposite]

\* Calls of downloadPdf followed in one behaviour.
MaxCalls == 2

InitPdf ==
  /\ \E a \in {ExportedAnalysis, NoAnalysis} : RenderAt(a, "mounted")
  /\ LabelIdle
  /\ UnitIdle
  /\ MapIdle
  /\ TextIdle
  /\ doc \in Docs
  /\ ops = <<>>
  /\ y = 0
  /\ pages = 0
  /\ headers = 0
  /\ breaks = 0
  /\ lastDraw = NoDraw
  /\ block = "none"
  /\ blockBreaks = 0
  /\ stamps = <<>>
  /\ pdfPc = "idle"
  /\ saved = 0
  /\ calls = 0
  /\ exports = 0
  /\ failedAt = "none"
  /\ escaped = FALSE

\* downloadPdf up to its await, called before any export or while one is
\* suspended at import('jspdf'): the guard returns, or the flag is set and
\* the import begins.
ExportBegin ==
  /\ pdfPc \in {"idle", "loading"}
  /\ calls < MaxCalls
  /\ calls' = calls + 1
  /\ IF Accepts(analysis, isGeneratingPdf)
       THEN /\ isGeneratingPdf' = TRUE
            /\ pdfPc' = "loading"
            /\ exports' = exports + 1
       ELSE UNCHANGED <<isGeneratingPdf, pdfPc, exports>>
  /\ UNCHANGED <<analysis, view, charts, live, canvas, ro, io, isRendering,
                 pendingRender, renderTimer, timers, renderAttempts, awaiting,
                 chartJs, passes, outcome>>
  /\ UNCHANGED <<doc, ops, y, pages, headers, breaks, lastDraw, block,
                 blockBreaks, stamps, saved, failedAt, escaped>>
  /\ UNCHANGED <<mapVars, textVars, labelVars, unitVars>>

\* import('jspdf') resolved: new jsPDF, y = margin + headerHeight, the first
\* page's header.
ExportLoaded ==
  /\ pdfPc = "loading"
  /\ pdfPc' = "layout"
  /\ ops' = Layout(doc)
  /\ y' = Top
  /\ pages' = 1
  /\ headers' = 1
  /\ UNCHANGED <<doc, breaks, lastDraw, block, blockBreaks, stamps, saved,
                 failedAt, escaped>>
  /\ UNCHANGED <<renderVars, mapVars, textVars, labelVars, unitVars>>
  /\ UNCHANGED <<calls, exports>>

\* The next operation of the layout: ensureSpace, one line of text drawn at
\* the cursor, the cursor advanced (a gap only advances it).
ExportStep ==
  /\ pdfPc = "layout"
  /\ ops # <<>>
  /\ LET op == Head(ops)
         c0 == IF op.k = "section" THEN [Cursor EXCEPT !.blockBreaks = 0]
               ELSE Cursor
         c1 == IF op.k = "gap" THEN c0 ELSE EnsureSpace(c0, NeededLines(op))
     IN  /\ block' = IF op.k = "section" THEN op.name ELSE block
         /\ lastDraw' = IF op.k = "gap" THEN lastDraw
                        ELSE [kind |-> op.k, page |-> c1.pages, y |-> c1.y,
                              text |-> DrawnText(op, doc.sample)]
         /\ y' = c1.y + Advance(op)
         /\ pages' = c1.pages
         /\ headers' = c1.headers
         /\ breaks' = c1.breaks
         /\ blockBreaks' = c1.blockBreaks
         /\ ops' = Rest(ops)
         /\ pdfPc' = IF Rest(ops) = <<>> THEN "footers" ELSE "layout"
  /\ UNCHANGED <<doc, stamps, saved, failedAt, escaped>>
  /\ UNCHANGED <<renderVars, mapVars, textVars, labelVars, unitVars>>
  /\ UNCHANGED <<calls, exports>>

\* Footer page numbers: 'Page i of pageCount' on every page i.
ExportStamp ==
  /\ pdfPc = "footers"
  /\ stamps' = [i \in 1..PageCount(pages) |->
                  [page |-> i, of |-> PageCount(pages)]]
  /\ pdfPc' = "saving"
  /\ UNCHANGED <<doc, ops, y, pages, headers, breaks, lastDraw, block,
                 blockBreaks, saved, failedAt, escaped>>
  /\ UNCHANGED <<renderVars, mapVars, textVars, labelVars, unitVars>>
  /\ UNCHANGED <<calls, exports>>

\* pdf.save(...), then finally.
ExportSave ==
  /\ pdfPc = "saving"
  /\ saved' = saved + 1
  /\ pdfPc' = "done"
  /\ isGeneratingPdf' = FALSE
  /\ UNCHANGED <<analysis, view, charts, live, canvas, ro, io, isRendering,
                 pendingRender, renderTimer, timers, renderAttempts, awaiting,
                 chartJs, passes, outcome>>
  /\ UNCHANGED <<doc, ops, y, pages, headers, breaks, lastDraw, block,
                 blockBreaks, stamps, failedAt, escaped>>
  /\ UNCHANGED <<mapVars, textVars, labelVars, unitVars>>
  /\ UNCHANGED <<calls, exports>>

\* A stage raises (the import rejects, a field access or a jsPDF call
\* throws): catch logs it, finally clears the flag.  A save that raises may
\* or may not have written the file.
ExportFails ==
  /\ pdfPc \in {"loading", "layout", "footers", "saving"}
  /\ failedAt' = Stage(pdfPc)
  /\ escaped' = ~Caught(Stage(pdfPc))
  /\ pdfPc' = "failed"
  /\ isGeneratingPdf' = FALSE
  /\ \/ saved' = saved
     \/ pdfPc = "saving" /\ saved' = saved + 1
  /\ UNCHANGED <<analysis, view, charts, live, canvas, ro, io, isRendering,
                 pendingRender, renderTimer, timers, renderAttempts, awaiting,
                 chartJs, passes, outcome>>
  /\ UNCHANGED <<doc, ops, y, pages, headers, breaks, lastDraw, block,
                 blockBreaks, stamps>>
  /\ UNCHANGED <<mapVars, textVars, labelVars, unitVars>>
  /\ UNCHANGED <<calls, exports>>

NextPdf ==
  \/ ExportBegin
  \/ ExportLoaded
  \/ ExportStep
  \/ ExportStamp
  \/ ExportSave
  \/ ExportFails

SpecPdf == InitPdf /\ [][NextPdf]_vars


\* ------------------------------------------------------ the doughnut step
InitDoughnut ==
  /\ RenderIdle
  /\ MapIdle
  /\ TextIdle
  /\ PdfIdle
  /\ LabelIdle
  /\ score \in Scores
  /\ doughEl \in DoughEls
  /\ doughnut = NoDoughnut
  /\ wrapped = NoLine /\ drawn = "none"
  /\ competition = <<>> /\ rendering = NoRendering

BuildDoughnut ==
  /\ doughnut = NoDoughnut
  /\ doughnut' = Doughnut(score, doughEl)
  /\ UNCHANGED <<score, doughEl, wrapped, drawn, competition, rendering>>
  /\ UNCHANGED <<renderVars, mapVars, textVars, pdfVars, labelVars>>

NextDoughnut == BuildDoughnut

SpecDoughnut == InitDoughnut /\ [][NextDoughnut]_vars

\* ------------------------------------------------------ one line, drawn
InitLine ==
  /\ RenderIdle
  /\ MapIdle
  /\ TextIdle
  /\ PdfIdle
  /\ LabelIdle
  /\ score = NoScore /\ doughEl = "absent" /\ doughnut = NoDoughnut
  /\ \E t \in LineTexts, n \in 1..MaxLines, v \in {"paragraph", "bullets"} :
       \E i \in 1..n :
         wrapped = [text |-> t, index |-> i, count |-> n, via |-> v]
  /\ drawn = "none"
  /\ competition = <<>> /\ rendering = NoRendering

DrawLine ==
  /\ drawn = "none"
  /\ drawn' = IF wrapped.via = "paragraph"
                THEN ParagraphLine(wrapped.text, wrapped.index, wrapped.count)
                ELSE BulletLine(wrapped.text, wrapped.index, wrapped.count)
  /\ UNCHANGED <<score, doughEl, doughnut, wrapped, competition, rendering>>
  /\ UNCHANGED <<renderVars, mapVars, textVars, pdfVars, labelVars>>

NextLine == DrawLine

SpecLine == InitLine /\ [][NextLine]_vars

\* ------------------------------------------------- the competition, drawn
InitCompetition ==
  /\ RenderIdle
  /\ MapIdle
  /\ TextIdle
  /\ PdfIdle
  /\ LabelIdle
  /\ score = NoScore /\ doughEl = "absent" /\ doughnut = NoDoughnut
  /\ wrapped = NoLine /\ drawn = "none"
  /\ competition \in CompTexts
  /\ rendering = NoRendering

DrawCompetition ==
  /\ rendering = NoRendering
  /\ rendering' = RenderCompetition(competition)
  /\ UNCHANGED <<score, doughEl, doughnut, wrapped, drawn, competition>>
  /\ UNCHANGED <<renderVars, mapVars, textVars, pdfVars, labelVars>>

NextCompetition == DrawCompetition

SpecCompetition == InitCompetition /\ [][NextCompetition]_vars


\* =================================================================== claims
\* A step in which the body of a pass runs: the only step that counts a pass.
PassRuns == passes' = passes + 1

\* A step in which a pass runs to its end (not aborted at a canvas).
PassCompletes == PassRuns /\ outcome' \in {"completed", "retry"}

\* A resize or visibility callback that reaches scheduleRender.
RequestStep == Len(charts) = 0 /\ (OnResize \/ OnVisible)


\* C1: every canvas slot has at most one live chart instance bound to it, in
\* every reachable state, over any interleaving of requests, passes, document
\* changes and teardown.
C1_OneLiveChartPerSlot ==
  \A s \in Slots : Cardinality({c \in live : c.slot = s}) <= 1

\* C1 witness: a later pass has rebuilt all three slots.
C1_Witness == passes >= 2 /\ Cardinality(live) = 3

\* C2: at most MAX_RENDER_ATTEMPTS passes execute their body, and once the
\* attempt counter exceeds the cap no pass is in flight any more.
C2_AtMostCapPasses ==
  /\ passes <= MAX_RENDER_ATTEMPTS
  /\ renderAttempts > MAX_RENDER_ATTEMPTS => awaiting = 0

\* C2 witness: five passes ran and a later request was stopped by the cap.
C2_Witness == passes = MAX_RENDER_ATTEMPTS /\ outcome = "capped"

\* C3 (as claimed): with chart data and no canvas ever in the document, once
\* the 5th pass has run no render timer is armed and no further pass runs.
C3_NoSixthPassScheduled ==
  (HasData(analysis) /\ passes >= MAX_RENDER_ATTEMPTS /\ awaiting = 0)
    => (timers = {} /\ passes = MAX_RENDER_ATTEMPTS)

\* C4: at most one render pass is in flight (suspended on the load of the
\* charting library) at any time.
C4_ExclusivePass == awaiting <= 1

\* C4 witness: a trigger arrived while the pass was suspended on the load.
C4_Witness == awaiting = 1 /\ pendingRender

C6_NoRenderAfterTeardown ==
  [][ /\ view' = "destroyed" => timers' = {}
      /\ view = "destroyed" => awaiting' <= awaiting ]_vars

\* C7 (as claimed): in every state after teardown no chart instance is live.
C7_NoChartAfterTeardown == view = "destroyed" => live = {}

\* C8 (as claimed): a failed load of the charting library leaves isRendering
\* false, a failed load of the PDF library leaves isGeneratingPdf false.
C8_LoadFailureClearsFlag ==
  [][ /\ ChartLoadFails => ~isRendering'
      /\ PdfLoadFails => ~isGeneratingPdf' ]_vars

\* C9 (as claimed): a pass that ends with data for a chart whose canvas is
\* missing requests another pass while the cap is not exceeded.
C9_MissingCanvasRetried ==
  [][ ( /\ PassCompletes
        /\ \E s \in Slots : ~canvas[s] /\ WantsChart(analysis, s)
        /\ renderAttempts <= MAX_RENDER_ATTEMPTS )
      => timers' # {} ]_vars

\* C9 (amended): a pass that ends with chart data and none of the three
\* canvases in the document requests another pass (the cap cannot be exceeded
\* inside a pass); a pass that ends while some canvas exists requests none,
\* whatever canvas is missing.
C9_RetryOnlyWhenNoCanvas ==
  [][ /\ ( /\ PassCompletes
           /\ HasData(analysis)
           /\ \A s \in Slots : ~canvas[s] )
         => (outcome' = "retry" /\ Cardinality(timers') = 1)
      /\ ( /\ PassCompletes
           /\ \E s \in Slots : canvas[s] )
         => (outcome' = "completed" /\ (~pendingRender => timers' = {})) ]_vars

\* C9 witness: a pass ended without any canvas and armed its retry.
C9_Witness ==
  outcome = "retry" /\ timers # {} /\ \A s \in Slots : ~canvas[s]

\* C10: with metric keys, a composite score and all three canvases present
\* and sized, every pass that runs leaves exactly three live charts, one per
\* slot, all of them tracked in this.charts.
C10_ThreeChartsPerPass ==
  [][ ( /\ PassRuns
        /\ Keys(analysis) # {} /\ analysis.composite # NoComposite
        /\ \A s \in Slots : canvas[s]
        /\ ChartLoadResolves(AllSized) )
      => ( /\ Cardinality(live') = 3
           /\ Len(charts') = 3
           /\ {c.id : c \in live'} = Range(charts')
           /\ \A s \in Slots : \E c \in live' : c.slot = s /\ c.attached ) ]_vars

\* C10 witness: a second pass over a full document left three charts.
C10_Witness ==
  /\ passes >= 2 /\ outcome = "completed"
  /\ Cardinality(live) = 3 /\ Len(charts) = 3
  /\ \A s \in Slots : canvas[s]

\* C11: the metric key set of a pass is the benchmark keys when benchmarks is
\* non-empty, otherwise the estimate keys, otherwise empty, and useEstimates
\* is true exactly when benchmarks is empty and estimates is not.
C11_KeySetPrecedence ==
  series.mapped =>
    /\ series.keys = (IF result.benchmarks # {} THEN result.benchmarks
                      ELSE IF result.estimates # {} THEN result.estimates
                      ELSE {})
    /\ series.useEstimates <=>
         (result.benchmarks = {} /\ result.estimates # {})

\* C11 witness: both are populated with different keys and the benchmark
\* keys were taken.
C11_Witness ==
  /\ series.mapped /\ ~series.useEstimates
  /\ result.benchmarks # {} /\ result.estimates # {}
  /\ result.benchmarks # result.estimates
  /\ series.keys = result.benchmarks

\* C12: with estimates the percentile of a key is 75, 50 or 25 for the label
\* above, near or below and 50 for a missing or unknown label; with benchmarks
\* it is the benchmark percentile times 100 rounded to the nearest integer.
C12_PercentileMapping ==
  (series.mapped /\ ~series.raised) =>
    \A k \in series.keys :
      LET pc == series.percentiles[k]
      IN  IF series.useEstimates
            THEN LET l == result.relative[k]
                 IN  /\ pc \in {75, 50, 25}
                     /\ l.text = <<"a", "b", "o", "v", "e">> => pc = 75
                     /\ l.text = <<"n", "e", "a", "r">> => pc = 50
                     /\ l.text = <<"b", "e", "l", "o", "w">> => pc = 25
                     /\ l.kind = "absent" => pc = 50
                     /\ l.text = <<"h", "i", "g", "h">> => pc = 50
            ELSE LET p == IF result.bench[k].percentile = Null THEN 0
                          ELSE result.bench[k].percentile
                 IN  10 * pc - 5 <= p /\ p < 10 * pc + 5

\* C12 witness: estimates were used, the label below gave 25 and the key
\* without a label 50.
C12_Witness ==
  /\ series.mapped /\ ~series.raised /\ series.useEstimates
  /\ series.keys = {result.focus, OtherKey}
  /\ series.percentiles[result.focus] = 25
  /\ series.percentiles[OtherKey] = 50

\* C13: for a result with empty benchmarks and empty estimates the key set is
\* empty and no pass constructs the radar or the bar chart, whatever canvases
\* exist and however many passes run.
C13_NoMetricChartsWithoutKeys ==
  (analysis.benchmarks = {} /\ analysis.estimates = {}) =>
    /\ Keys(analysis) = {}
    /\ \A c \in live : c.slot = "doughnutChart"

\* C13 witness: passes ran over a document with all three canvases and only
\* the doughnut was constructed.
C13_Witness ==
  /\ analysis.present
  /\ analysis.benchmarks = {} /\ analysis.estimates = {}
  /\ passes >= 2 /\ outcome = "completed"
  /\ \A s \in Slots : canvas[s]
  /\ Cardinality(live) = 1

\* C14 (as claimed): the mapping step never raises, whatever the result, a
\* null benchmark or estimate entry included.
C14_MappingTotal == series.mapped => ~series.raised

\* The extracted value a lookup of the focus key resolves to.
Extracted(r) ==
  LET al == Aliases(r.focus)
      direct == r.em.fields[r.focus]
  IN  IF direct # Null \/ al = <<>> THEN direct
      ELSE r.em.fields[al[Len(al)]]

\* C15: for the four percent-like keys the company value in estimates mode is
\* 100 v for an extracted value v <= 1 and v for v > 1, whatever the unit.
C15_PercentScaling ==
  ( /\ series.mapped /\ ~series.raised /\ series.useEstimates
    /\ result.focus \in PercentKeys \cap series.keys
    /\ result.em.present
    /\ Extracted(result) \notin {Null, NaN} )
  => LET v == Extracted(result)
     IN  series.companyVals[result.focus] =
           (IF v <= Hundredth THEN 100 * v ELSE v)

\* C15 witness: churn rate 0.42 without a unit became 42.
C15_Witness ==
  /\ series.mapped /\ ~series.raised /\ series.useEstimates
  /\ result.focus = "churnRate" /\ "churnRate" \in series.keys
  /\ result.em.present /\ result.em.fields["churnRate"] = 42
  /\ ~result.est["churnRate"].isNull
  /\ result.est["churnRate"].unit = <<>>
  /\ series.companyVals["churnRate"] = 4200

\* C16: every body line of the export is drawn at a cursor y with
\* y + lineHeight <= pageHeight - margin - footerHeight, and an operation
\* whose lines would exceed that bound draws on a new page, at its top.
C16_DrawnInsidePrintable ==
  [][ /\ lastDraw'.kind # "none" =>
           lastDraw'.y + LineHeight <= PageHeight - Margin - FooterHeight
      /\ ( /\ pdfPc = "layout" /\ pdfPc' # "failed" /\ ops # <<>>
           /\ Head(ops).k # "gap"
           /\ y + NeededLines(Head(ops)) * LineHeight
                > PageHeight - Margin - FooterHeight )
         => ( /\ pages' = pages + 1
              /\ lastDraw'.page = pages + 1
              /\ lastDraw'.y = Margin + HeaderHeight ) ]_vars

\* C16 witness: a paragraph line was drawn at the top of the second page.
C16_Witness ==
  /\ lastDraw.kind = "line" /\ lastDraw.page = 2 /\ lastDraw.y = Top
  /\ breaks = 1

\* C17: after layout every page i of the N pages produced has exactly one
\* footer stamp, reading 'Page i of N', and N is one plus the page breaks.
C17_FooterStamps ==
  pdfPc \in {"saving", "done"} =>
    /\ pages = 1 + breaks
    /\ Len(stamps) = pages
    /\ \A i \in 1..pages :
         Cardinality({j \in DOMAIN stamps : stamps[j].page = i}) = 1
    /\ \A j \in DOMAIN stamps : stamps[j].of = pages

\* C17 witness: a three-page document was stamped and saved.
C17_Witness == pdfPc = "done" /\ pages = 3 /\ Len(stamps) = 3

\* The number of lines of a text.
RECURSIVE Lines(_)
Lines(parts) == IF parts = <<>> THEN 0 ELSE Head(parts) + Lines(Tail(parts))

\* The sub-paragraph line i of a text belongs to.
RECURSIVE PartOf(_, _)
PartOf(parts, i) ==
  IF i <= Head(parts) THEN 1 ELSE 1 + PartOf(Tail(parts), i - Head(parts))

\* Where line i of a text lies below its first line when nothing breaks.
Offset(parts, i) == LineHeight * (i - 1) + 2 * (PartOf(parts, i) - 1)

\* The cursor below the title spacer and the summary heading.
SummaryStart == Top + (LineHeight + 2) + LineHeight

\* The lines of the summary that the first page still takes.
OnFirstPage(parts) ==
  {i \in 1..Lines(parts) :
     SummaryStart + Offset(parts, i) + LineHeight <= Printable}

\* The summary exceeds the first page, and what exceeds it fits on one page.
OverflowsOnce(parts) ==
  LET rest == (1..Lines(parts)) \ OnFirstPage(parts)
  IN  /\ rest # {}
      /\ LET j == CHOOSE i \in rest : \A k \in rest : i <= k
         IN  \A i \in rest :
               Top + (Offset(parts, i) - Offset(parts, j)) + LineHeight
                 <= Printable

\* C18: an Executive Summary whose lines exceed what is left of the first
\* page but fit on one further page makes exactly one page break, with the
\* header drawn again, while it is laid out.
C18_SummaryBreaksOnce ==
  ( /\ pdfPc = "layout" /\ block = "Executive Summary"
    /\ Head(ops).k = "section"
    /\ OverflowsOnce(doc.summary) )
  => (blockBreaks = 1 /\ breaks = 1 /\ pages = 2 /\ headers = 2)

\* C18 witness: a summary of 38 and 40 lines in two sub-paragraphs is laid
\* out, over two pages.
C18_Witness ==
  /\ pdfPc = "layout" /\ block = "Executive Summary"
  /\ Head(ops).k = "section"
  /\ doc.summary = <<38, 40>>
  /\ pages = 2

\* C19 (as claimed): sanitizing is idempotent, sanitizeText(sanitizeText(t))
\* is sanitizeText(t) for every text t.
C19_SanitizeIdempotent == Len(cleaned) = 2 => cleaned[2] = cleaned[1]

\* C20: downloadPdf never lets an error out: whatever stage raised, the call
\* settles with isGeneratingPdf false, and no document was saved when the
\* failure preceded the save.
C20_ExportNeverRaises ==
  /\ ~escaped
  /\ pdfPc \in {"done", "failed"} => ~isGeneratingPdf
  /\ (pdfPc = "failed" /\ failedAt \in {"load", "layout", "footers"})
       => saved = 0

\* C20 witness: the layout raised on the second page.
C20_Witness ==
  /\ pdfPc = "failed" /\ failedAt = "layout" /\ pages = 2
  /\ ~isGeneratingPdf /\ saved = 0

\* C21: downloadPdf leaves the chart registry, the attempt counter, the
\* in-flight flag, the pending flag and the render timer unchanged, and a
\* render pass leaves isGeneratingPdf unchanged, in every interleaving.
C21_ExportAndRenderDisjoint ==
  [][ /\ (DownloadPdf \/ PdfLoadResolves \/ PdfLoadFails
            \/ isGeneratingPdf' # isGeneratingPdf)
         => UNCHANGED <<charts, live, renderAttempts, isRendering,
                        pendingRender, renderTimer, timers, awaiting, passes>>
      /\ (PassRuns \/ awaiting' # awaiting \/ renderAttempts' # renderAttempts
            \/ isRendering' # isRendering)
         => UNCHANGED isGeneratingPdf ]_vars

\* C21 witness: after an earlier pass, an export and a render pass are both
\* suspended on their library loads.
C21_Witness == isGeneratingPdf /\ awaiting = 1 /\ passes >= 1

\* Every wanted canvas in the document measures zero, also after the inline
\* fallback size.
ZeroBoxes ==
  [s \in Slots |->
     IF canvas[s] /\ WantsChart(analysis, s) THEN "unsized" ELSE "sized"]

\* C25: a pass that finds a canvas whose box is still zero after the fallback
\* inline size and the second measurement builds no chart and aborts.
C25_NoChartOnZeroBox ==
  [][ (ChartLoadResolves(ZeroBoxes) /\ \E s \in Slots : ZeroBoxes[s] = "unsized")
        => (outcome' = "aborted" /\ Len(charts') = 0) ]_vars

\* The renderCharts calls that ended with the rejection of the import.
Failed == IF outcome = "loadFailed" THEN 1 ELSE 0

Min(a, b) == IF a <= b THEN a ELSE b

\* C26: the attempt counter always equals the number of render passes
\* entered so far (completed, in flight or ended by a failed load).
C26_CounterEqualsPasses == renderAttempts = passes + awaiting + Failed

\* C26, amended: the counter never decreases; it is incremented, by one, by
\* exactly the renderCharts calls that pass the no-analysis and in-flight
\* guards, the ones stopped by the cap included, so that the passes entered
\* number min(counter, cap); scheduleRender and a call returning at one of
\* the two guards leave it unchanged.
C26_CounterCountsCalls ==
  [][ /\ renderAttempts' \in {renderAttempts, renderAttempts + 1}
      /\ (renderAttempts' # renderAttempts)
           => /\ timers' # timers /\ timers' \subseteq timers
              /\ analysis.present /\ ~isRendering
              /\ outcome' \in {"started", "capped"}
      /\ (timers' # timers /\ timers' \subseteq timers
            /\ analysis.present /\ ~isRendering)
           => renderAttempts' = renderAttempts + 1
      /\ (OnResize \/ OnVisible) => UNCHANGED renderAttempts
      /\ passes' + awaiting' + Failed' = Min(renderAttempts', MAX_RENDER_ATTEMPTS)
    ]_vars

\* C26 witness: a call stopped by the cap has incremented the counter past
\* the five passes executed.
C26_Witness ==
  renderAttempts = MAX_RENDER_ATTEMPTS + 1 /\ passes = MAX_RENDER_ATTEMPTS

\* C27: at most one render timer is armed at any time, and a request made
\* while no pass is in flight replaces the armed timer by one carrying the
\* request's own delay.
C27_SingleTimerLastDelay ==
  [][ /\ Cardinality(timers') <= 1
      /\ (~isRendering /\ Len(charts) = 0 /\ OnResize)
           => timers' = {[id |-> renderTimer', delay |-> 120]}
      /\ (~isRendering /\ Len(charts) = 0 /\ OnVisible)
           => timers' = {[id |-> renderTimer', delay |-> 0]} ]_vars

\* C27 witness: the zero-delay timer of ngAfterViewInit was replaced, before
\* it fired, by the 120 ms timer of a resize.
C27_Witness ==
  /\ analysis.present /\ renderAttempts = 0
  /\ Cardinality(timers) = 1
  /\ \A t \in timers : t.delay = 120 /\ t.id = renderTimer

\* C28: a pass that completes clears the in-flight flag and the pending
\* flag; it arms one zero-delay timer when the pending flag was set by then
\* (by a request during the pass or by the pass's own retry request), and
\* leaves no timer armed otherwise.
C28_CompletionHandling ==
  [][ PassCompletes
        => /\ ~isRendering' /\ ~pendingRender'
           /\ IF pendingRender \/ outcome' = "retry"
                THEN Cardinality(timers') = 1 /\ \A t \in timers' : t.delay = 0
                ELSE timers' = {} ]_vars

\* C28 witness: a pass has completed with the pending flag clear and the
\* scheduler is Idle.
C28_Witness ==
  /\ outcome = "completed" /\ passes >= 1 /\ Len(charts) > 0
  /\ ~isRendering /\ ~pendingRender /\ timers = {}

\* C30: a pass that was not aborted requests a retry exactly when no canvas
\* slot exists, the result has chart data and the counter is within the cap;
\* a pass over a result without chart data arms nothing of its own.
C30_RetryIffNoCanvasAndData ==
  [][ PassCompletes
        => /\ (outcome' = "retry")
                <=> /\ \A s \in Slots : ~canvas[s]
                    /\ HasData(analysis)
                    /\ renderAttempts <= MAX_RENDER_ATTEMPTS
           /\ (~HasData(analysis) /\ ~pendingRender) => timers' = {} ]_vars

\* C30 witness: a pass over a result without chart data found no canvas and
\* completed without a retry.
C30_Witness ==
  /\ outcome = "completed" /\ passes >= 1
  /\ analysis.present /\ ~HasData(analysis)
  /\ \A s \in Slots : ~canvas[s]
  /\ timers = {} /\ ~isRendering

\* C24: after a pass aborted on an unmeasurable canvas the in-flight flag is
\* eventually cleared (so that the requested re-render can execute).
C24_AbortedPassRecovers == (outcome = "aborted") ~> ~isRendering

\* C29: when the canvases never mount and no further request arrives, the
\* scheduler eventually reaches, and stays in, a state with no timer armed,
\* no pass in flight and the pending flag false.
C29_RenderingTerminates ==
  <>[](timers = {} /\ awaiting = 0 /\ ~pendingRender)

\* C29 witness: five passes found no canvas and retried, the sixth call was
\* stopped by the cap and nothing is armed any more.
C29_Witness ==
  /\ outcome = "capped" /\ passes = MAX_RENDER_ATTEMPTS
  /\ timers = {} /\ awaiting = 0 /\ ~pendingRender /\ ~isRendering

\* The pieces between positions i and j are blanks with at most one dash.
GapParts(ps, i, j) ==
  /\ \A k \in (i + 1)..(j - 1) : ps[k] \in {Blank, Dash}
  /\ Cardinality({k \in (i + 1)..(j - 1) : ps[k] = Dash}) <= 1

PreSeedIn(ps) ==
  \E i, j \in 1..Len(ps) :
    i < j /\ ps[i] = Pre /\ ps[j] = Seed /\ GapParts(ps, i, j)

\* The positions of a "series" piece followed, after such a gap, by a piece
\* that begins with a letter, with the position of that piece.
SeriesIn(ps) ==
  {m \in (1..Len(ps)) \X (1..Len(ps)) :
     /\ m[1] < m[2] /\ ps[m[1]] = Series /\ GapParts(ps, m[1], m[2])
     /\ ps[m[2]] \notin {Blank, Dash, <<"1">>}}

\* The first letter of a piece, in upper case.
Initial(a) ==
  CASE a = Pre -> "P" [] a = Series -> "S" [] a = Growth -> "G"
    [] a = Late -> "L" [] a = <<"a">> -> "A" [] a = <<"B">> -> "B"
    [] OTHER -> "?"

\* C22: getStageLabel returns the label of the first pattern that matches,
\* in the order pre-seed, seed, angel, series X (X upper-cased), growth or
\* late; 'series a' gives 'Series A', 'pre seed' gives 'Pre-Seed', and an
\* empty or blank input gives the empty string.
C22_StageFirstMatchWins ==
  called =>
    LET hasSeed == Seed \in Range(pieces)
        hasAngel == Angel \in Range(pieces)
        ms == SeriesIn(pieces)
    IN  /\ (\A k \in 1..Len(pieces) : pieces[k] = Blank) => stageLabel = <<>>
        /\ PreSeedIn(pieces) => stageLabel = LabelPreSeed
        /\ (hasSeed /\ ~PreSeedIn(pieces)) => stageLabel = LabelSeed
        /\ (~hasSeed /\ hasAngel) => stageLabel = LabelAngel
        /\ (~hasSeed /\ ~hasAngel /\ ms # {}) =>
             LET m == CHOOSE x \in ms : \A z \in ms : x[1] <= z[1]
             IN  stageLabel = LabelSeries \o <<Initial(pieces[m[2]])>>
        /\ (~hasSeed /\ ~hasAngel /\ ms = {}
              /\ (Growth \in Range(pieces) \/ Late \in Range(pieces)))
             => stageLabel = LabelGrowth
        /\ raw = <<"s", "e", "r", "i", "e", "s", " ", "a">>
             => stageLabel = <<"S", "e", "r", "i", "e", "s", " ", "A">>
        /\ raw = <<"p", "r", "e", " ", "s", "e", "e", "d">>
             => stageLabel = LabelPreSeed

\* C22 witness: 'pre seed', which the pre-seed and the seed pattern both
\* match, was labelled Pre-Seed.
C22_Witness ==
  called /\ pieces = <<Pre, Blank, Seed>> /\ stageLabel = LabelPreSeed

\* The canonical sector names of the synonym table.
CanonicalNames == {e[2] : e \in CanonicalEntries}

\* The sector a word of a sector string stands for in the synonym table
\* (none for a word with a digit, a word that is not alphabetic, a stop word
\* and a word the table does not list).
SectorOf(w) ==
  CASE w \in {<<"f", "i", "n", "t", "e", "c", "h">>, <<"p", "a", "y", "m", "e", "n", "t", "s">>} -> "Fintech"
    [] w = <<"S", "a", "a", "S">> -> "SaaS"
    [] w = <<"a", "i">> -> "AI"
    [] w = <<"g", "a", "m", "i", "n", "g">> -> "Gaming"
    [] w = <<"e", "d", "t", "e", "c", "h">> -> "Edtech"
    [] OTHER -> "none"

\* The sectors of the words, each at its first occurrence.
RECURSIVE FirstSectors(_, _)
FirstSectors(ws, acc) ==
  IF ws = <<>> THEN acc
  ELSE FirstSectors(Tail(ws),
         IF SectorOf(Head(ws)) = "none" \/ SectorOf(Head(ws)) \in Range(acc)
           THEN acc ELSE Append(acc, SectorOf(Head(ws))))

\* C23: getSectorChips returns at most 4 entries, without duplicates, each a
\* canonical sector name of the synonym table, in the order of first
\* occurrence; words with digits, non-alphabetic words and stop words
\* contribute nothing.
C23_ChipsCanonical ==
  called =>
    LET all == FirstSectors(pieces, <<>>)
    IN  /\ Len(chips) <= 4
        /\ \A i, j \in 1..Len(chips) : chips[i] = chips[j] => i = j
        /\ \A i \in 1..Len(chips) : chips[i] \in CanonicalNames
        /\ chips = SubSeq(all, 1, IF Len(all) < 4 THEN Len(all) ELSE 4)

\* C31: a resize or visibility callback requests a render only when no chart
\* is tracked; with a tracked chart it leaves the timer, the in-flight flag,
\* the pending flag, the attempt counter and the registry unchanged.
C31_ObserversGuarded ==
  [][ (Len(charts) > 0 /\ (OnResize \/ OnVisible))
        => UNCHANGED <<timers, renderTimer, isRendering, pendingRender,
                       renderAttempts, charts, live>> ]_vars

\* C31 witness: charts are tracked, both observers are connected and the
\* scheduler is at rest after a completed pass.
C31_Witness ==
  /\ Len(charts) > 0 /\ ro /\ io
  /\ outcome = "completed" /\ timers = {} /\ ~isRendering /\ ~pendingRender

\* C32: every percentile of the series of a pass lies in 0..100, whatever
\* the benchmark percentile and the relative label.
C32_PercentilesInRange ==
  (series.mapped /\ ~series.raised) =>
    \A k \in series.keys : series.percentiles[k] \in 0..100

\* C34: every page break of ensureSpace adds exactly one page, draws the
\* header on it and resets the cursor to margin + headerHeight, and when the
\* layout ends as many headers were drawn as there are pages.
C34_BreakAddsPageAndHeader ==
  [][ /\ (pdfPc = "layout" /\ pages' # pages)
           => /\ pages' = pages + 1
              /\ headers' = headers + 1
              /\ breaks' = breaks + 1
              /\ lastDraw'.page = pages' /\ lastDraw'.y = Margin + HeaderHeight
              /\ y' = Margin + HeaderHeight + Advance(Head(ops))
      /\ (pdfPc = "layout" /\ headers' # headers) => pages' = pages + 1
      /\ (pdfPc = "layout" /\ pdfPc' = "footers") => headers' = pages' ]_vars

\* C34 witness: the layout of a three-page document has ended with three
\* headers drawn.
C34_Witness ==
  pdfPc = "footers" /\ pages = 3 /\ headers = 3 /\ breaks = 2

\* The fixed order of the section blocks.
SectionOrder ==
  <<"Executive Summary", "Market Analysis", "Key Risks", "Recommendations",
    "Benchmarks", "Benchmark Estimates", "Composite Score">>

\* The position of a section in that order; 0 before the first section.
Rank(name) ==
  IF name = "none" THEN 0
  ELSE CHOOSE i \in 1..Len(SectionOrder) : SectionOrder[i] = name

\* Whether the result has what section i shows; the first two sections are
\* emitted for every result.
HasSection(d, i) ==
  CASE i = 3 -> d.risks # <<>>
    [] i = 4 -> d.recommendations # <<>>
    [] i = 5 -> d.benchmarks > 0
    [] i = 6 -> d.estimates > 0
    [] i = 7 -> d.composite
    [] OTHER -> TRUE

\* C36: the section blocks are emitted in the fixed order; a section is
\* emitted exactly when the result has its data, so the sections skipped
\* between two emitted ones, and after the last one, are the ones without
\* data.
C36_SectionOrder ==
  [][ /\ block' # block
        => /\ Rank(block) < Rank(block')
           /\ HasSection(doc, Rank(block'))
           /\ \A i \in (Rank(block) + 1)..(Rank(block') - 1) : ~HasSection(doc, i)
      /\ (pdfPc = "layout" /\ pdfPc' = "footers")
        => \A i \in (Rank(block') + 1)..Len(SectionOrder) : ~HasSection(doc, i)
    ]_vars

\* C36 witness: a result without risks and without benchmarks was laid out
\* up to its composite score, past its recommendations and estimates.
C36_Witness ==
  /\ pdfPc = "footers" /\ block = "Composite Score"
  /\ doc.risks = <<>> /\ doc.recommendations # <<>>
  /\ doc.benchmarks = 0 /\ doc.estimates > 0

\* C39: a page break is never inserted with the cursor at the top of the
\* page: every break leaves behind a page that holds a drawing besides its
\* header, whatever line count was asked for.
C39_NoBreakAtTop ==
  [][ (pdfPc = "layout" /\ pages' # pages)
        => /\ y > Top
           /\ lastDraw.kind # "none" /\ lastDraw.page = pages ]_vars

\* C39 witness: a bullet item of 45 lines, more than a page holds, forced a
\* break and its first line was drawn at the top of the new page.
C39_Witness ==
  /\ pdfPc = "layout" /\ ops # <<>>
  /\ Head(ops).k = "bullet" /\ Head(ops).n = 44 /\ ~Head(ops).first
  /\ lastDraw.kind = "bullet" /\ lastDraw.y = Top /\ lastDraw.page = pages
  /\ pages >= 2

\* The characters sanitizeText removes or rewrites.
Unsafe == {"U+200B", "U+20B9", "U+00B9", "U+00A0", "U+2019", "U+2014"}

\* C38: every text of the result drawn into the document went through
\* sanitizeText first: no rupee sign, smart quote, zero-width mark or
\* no-break space of the result is drawn.
C38_DrawnTextSanitized ==
  /\ \A i \in DOMAIN lastDraw.text : lastDraw.text[i] \notin Unsafe
  /\ lastDraw.kind \in {"line", "bullet", "riskHeader"}
       => lastDraw.text = SanitizeText(doc.sample)

\* An export is between its guard and its settling.
InFlight == pdfPc \in {"loading", "layout", "footers", "saving"}

\* C40: a downloadPdf call made while isGeneratingPdf is true, or without an
\* analysis result, changes nothing: it starts no export, saves nothing and
\* leaves the flag as it is.  So the flag is true exactly while the one
\* export is in flight, at most one export is in flight, and no more
\* documents are saved than requests were accepted.
C40_ReentrantCallIgnored ==
  [][ /\ (calls' # calls /\ (isGeneratingPdf \/ ~analysis.present))
        => UNCHANGED <<isGeneratingPdf, exports, pdfPc, saved, ops, y, pages,
                       headers, lastDraw, stamps, failedAt>>
      /\ isGeneratingPdf' = InFlight'
      /\ exports' = (IF pdfPc' = "idle" THEN 0 ELSE 1)
      /\ saved' <= exports' ]_vars

\* C40 witness: downloadPdf was called a second time while the first export
\* was suspended; one export ran and one document was saved.
C40_Witness ==
  /\ calls = 2 /\ exports = 1 /\ pdfPc = "done" /\ saved = 1
  /\ ~isGeneratingPdf

\* C33: the doughnut is built only for a score with a non-null composite
\* (0 counts), and for every composite c its pair is <<val, rem>> with val the
\* rounding of 100 times c clamped to [0, 1] and rem = 100 - val: both in
\* 0..100, summing to 100.
C33_DoughnutPair ==
  /\ doughnut.step = "built" => score.present /\ ~score.isNull
  /\ (doughnut.step # "none" /\ score.present /\ ~score.isNull
        /\ doughEl \in {"sized", "collapsed", "unsized"})
       => doughnut.step = "built"
  /\ doughnut.step = "built"
       => LET val == doughnut.data[1]
              rem == doughnut.data[2]
              c == score.composite
          IN  /\ val \in 0..100 /\ rem \in 0..100 /\ val + rem = 100
              /\ c <= 0 => val = 0
              /\ c >= 1000 => val = 100
              /\ c \in 0..1000 => (10 * val - 5 <= c /\ c < 10 * val + 5)

\* C33 witness: a composite above 1 was charted as <<100, 0>>.
C33_Witness ==
  /\ doughnut.step = "built" /\ score.composite > 1000
  /\ doughnut.data = <<100, 0>>

\* The words of a line as the wrapping leaves them: the pieces between
\* blanks that hold something other than white space.
WordCount(t) ==
  Cardinality({i \in 1..Len(t) :
                 /\ t[i] # " " /\ (i = 1 \/ t[i - 1] = " ")
                 /\ \E j \in i..Len(t) :
                      /\ t[j] \notin WhiteSpace
                      /\ \A k \in i..j : t[k] # " "})

\* C35: a paragraph line is justified exactly when it is not the last line
\* of its sub-paragraph and holds more than one word; every other paragraph
\* line, and every bullet line, is drawn left-aligned.
C35_JustifiedIffInnerMultiWord ==
  drawn # "none" =>
    /\ wrapped.via = "paragraph" =>
         (drawn = "justified"
            <=> (wrapped.index < wrapped.count /\ WordCount(wrapped.text) > 1))
    /\ wrapped.via = "bullets" => drawn = "left"
    /\ drawn \in {"left", "justified"}

\* C35 witness: an inner paragraph line of two words was justified.
C35_Witness ==
  /\ drawn = "justified" /\ wrapped.via = "paragraph"
  /\ wrapped.text = <<"a", " ", "a">> /\ wrapped.index = 1 /\ wrapped.count = 2

\* C37: the competition is rendered as bullets when it holds a delimiter
\* separating tokens, and as a paragraph otherwise: a non-empty text without
\* a delimiter is rendered as a paragraph.
C37_CompetitionParagraphWithoutDelimiter ==
  (rendering.kind # "none" /\ competition # <<>>
     /\ \A i \in 1..Len(competition) : competition[i] \notin Delimiters)
    => rendering.kind = "paragraph"

====
